---- MODULE Spec2Model ----
(***************************************************************************)
(* Verification model of the paper-trading engine.                         *)
(*                                                                         *)
(*   - services/botEngine.ts (src/unnamed/part_008): the position ledger,  *)
(*     the auto-exit scan, runBotEngineCycle and confirmPendingTrade;      *)
(*   - services/storage/tradeHistoryService.ts (src/unnamed/part_007):     *)
(*     the four append-only journals and the idempotency lookup;           *)
(*   - core/CircuitBreaker.ts and core/MultiSymbolEngine.ts.               *)
(*                                                                         *)
(* Units.  Prices are whole USD, amounts whole units of the asset, money   *)
(* (balance, fees, pnl, portfolio value) is in 1/1000 USD ("mills"), so    *)
(* that the 0.1 % fee of a fill is an exact integer.  Every value the      *)
(* model produces is a multiple of 1e-3 USD, on which the code's           *)
(* toFixed(6)/toFixed(8) roundings leave the value as it is.  A quotient   *)
(* the code multiplies back by its divisor (weightedEntryPrice) is kept as *)
(* its numerator.                                                          *)
(***************************************************************************)
EXTENDS Integers, Sequences, FiniteSets, TLC

(* ---------------------------------------------------------------------- *)
(* Bounds of the model                                                     *)
(* ---------------------------------------------------------------------- *)
MaxTicks == 3        \* calls of runBotEngineCycle explored
MaxOrders == 3       \* order records a manual or retried confirmation may add to

(* ---------------------------------------------------------------------- *)
(* Program constants                                                       *)
(* ---------------------------------------------------------------------- *)
INITIAL_BALANCE == 1000                 \* USD
FEE_RATE_INV == 1000                    \* TRADING_FEE_RATE = 0.001 = 1 / 1000
Mills == FEE_RATE_INV                   \* money unit: USD / 1000, so that the fee is exact
MIN_BALANCE_USD == 15
MIN_NOTIONAL_USD == 10
MAX_TRADES == 2000
MAX_WARNINGS == 20                      \* the slice(0, 20) of every aiWarnings update
MAX_TRAINING_LOG == 500

RawSymbols == {"BTC-USDC", "ETHUSDT"}
Symbols == {"BTC-USDC", "ETH-USDC"}
Prices == {94, 100, 109}
Regimes == {"CHOP", "HIGH_VOLATILITY", "TRENDING_UP", "TRENDING_DOWN", "RANGING"}

NoTrade == [action |-> "NONE"]
NoId == <<>>
NoFallback == [present |-> FALSE, stopLoss |-> 0, takeProfit |-> 0]

(* strategy parameters in force (within the sanitizer bounds); percentages *)
(* are per mille                                                           *)
parameters ==
  [ atrMultiplier |-> 1, stopLossATR |-> 2, takeProfitATR |-> 3,
    maxRiskPerTradePm |-> 12, dailyMaxLossPm |-> 40,
    maxConcurrentTrades |-> 2, killSwitchLosses |-> 3,
    minAtrPm |-> 2, maxAtrPm |-> 30 ]

(* runtime configuration defaults: minExpectedEdge 0.0005, position size  *)
(* 0.25 and exposure 0.7 as integers over 10000 and 100                    *)
runtimeConfig ==
  [ timeframe |-> "1h", minExpectedEdgePer10k |-> 5,
    maxPositionSizePct |-> 25, maxExposurePct |-> 70 ]

(* ---------------------------------------------------------------------- *)
(* Helpers                                                                 *)
(* ---------------------------------------------------------------------- *)
Min(a, b) == IF a < b THEN a ELSE b
Max(a, b) == IF a > b THEN a ELSE b

SumSeq(s, f(_)) ==
  LET RECURSIVE Upto(_)
      Upto(i) == IF i = 0 THEN 0 ELSE f(s[i]) + Upto(i - 1)
  IN Upto(Len(s))

Reverse(s) == [i \in 1..Len(s) |-> s[Len(s) + 1 - i]]

Take(s, n) == SubSeq(s, 1, Min(n, Len(s)))

(* state.holdings[key] || 0, for any key, also one that is not a property *)
HoldingOf(st, key) == IF key \in DOMAIN st.holdings THEN st.holdings[key] ELSE 0
AvgEntryOf(st, key) ==
  IF key \in DOMAIN st.averageEntryPrices THEN st.averageEntryPrices[key] ELSE 0

normalizeSymbol(symbol) ==
  CASE symbol = "BTC-USDC" -> "BTC-USDC"
    [] symbol = "ETH-USDC" -> "ETH-USDC"
    [] symbol = "ETHUSDT" -> "ETH-USDC"
    [] symbol = "BTCUSDT" -> "BTC-USDC"
    [] OTHER -> symbol

(* spread / 2 + slippage of the execution simulator, on the price grid:   *)
(* strictly positive, so a BUY fills above and a SELL below the market.   *)
calcImpact(price, atr) == 1

simulateEntryExecution(action, marketPrice, amount, atr) ==
  LET fillPrice == IF action = "BUY" THEN marketPrice + calcImpact(marketPrice, atr)
                   ELSE marketPrice - calcImpact(marketPrice, atr)
  IN [ entryPrice |-> fillPrice,
       fees |-> Max(0, (fillPrice * amount * Mills) \div FEE_RATE_INV) ]

simulateExitExecution(marketPrice, atr) ==
  [ exitPrice |-> marketPrice - calcImpact(marketPrice, atr) ]

(* ---------------------------------------------------------------------- *)
(* Position ledger                                                         *)
(* ---------------------------------------------------------------------- *)
lotsOf(lots, symbol) == SelectSeq(lots, LAMBDA p : p.symbol = symbol)

totalAmountOf(lots) == SumSeq(lots, LAMBDA p : p.amount)

totalCostOf(lots) == SumSeq(lots, LAMBDA p : p.entryPrice * p.amount)

(* the holdings / averageEntryPrices entries of the symbol, from its lots  *)
withSymbolTotals(st, symbol, totalAmount, totalCost) ==
  [ st EXCEPT
      !.holdings = [k \in DOMAIN st.holdings \cup {symbol} |->
                      IF k = symbol THEN Max(totalAmount, 0) ELSE st.holdings[k]],
      !.averageEntryPrices = [k \in DOMAIN st.averageEntryPrices \cup {symbol} |->
                      IF k = symbol
                      THEN (IF totalAmount > 0 THEN totalCost \div totalAmount ELSE 0)
                      ELSE st.averageEntryPrices[k]] ]

recalculateSymbolState(st, symbol) ==
  withSymbolTotals(st, symbol, totalAmountOf(lotsOf(st.activePositions, symbol)),
                   totalCostOf(lotsOf(st.activePositions, symbol)))

(* value of one asset: the symbol of the call at currentPrice, any other   *)
(* at its average entry price                                              *)
assetValue(st, asset, symbol, currentPrice) ==
  IF st.holdings[asset] <= 0 THEN 0
  ELSE IF asset = symbol THEN st.holdings[asset] * currentPrice * Mills
  ELSE st.holdings[asset] * AvgEntryOf(st, asset) * Mills

RECURSIVE holdingsValue(_, _, _, _)
holdingsValue(st, assets, symbol, currentPrice) ==
  IF assets = {} THEN 0
  ELSE holdingsValue(st, assets \ {CHOOSE x \in assets : TRUE}, symbol, currentPrice)
         + assetValue(st, CHOOSE x \in assets : TRUE, symbol, currentPrice)

recalculatePortfolioValue(st, symbol, currentPrice) ==
  [ st EXCEPT !.totalPortfolioValue =
      st.balance + holdingsValue(st, DOMAIN st.holdings, symbol, currentPrice) ]

recordTrade(st, trade) ==
  [ st EXCEPT !.trades = Take(<<trade>> \o st.trades, MAX_TRADES) ]

(* One lot of the loop of consumePositions.  acc carries remaining,        *)
(* consumedAmount, the weighted sums, the stop-loss / take-profit metadata *)
(* (0 stands for undefined) and nextPositions.                             *)
(* variant that loses the remainder of a partly consumed lot *)
consumeLot_dropsRemainder(position, consume, acc) ==
  [ remaining |-> acc.remaining - consume,
    consumedAmount |-> acc.consumedAmount + consume,
    weightedEntryPrice |-> acc.weightedEntryPrice + position.entryPrice * consume,
    weightedEntryFee |-> acc.weightedEntryFee + position.entryFeePerUnit * consume,
    stopLoss |-> IF acc.stopLoss # 0 THEN acc.stopLoss ELSE position.stopLoss,
    takeProfit |-> IF acc.takeProfit # 0 THEN acc.takeProfit ELSE position.takeProfit,
    nextPositions |-> acc.nextPositions ]

consumeLot(position, consume, acc) ==
  [ remaining |-> acc.remaining - consume,
    consumedAmount |-> acc.consumedAmount + consume,
    weightedEntryPrice |-> acc.weightedEntryPrice + position.entryPrice * consume,
    weightedEntryFee |-> acc.weightedEntryFee + position.entryFeePerUnit * consume,
    stopLoss |-> IF acc.stopLoss # 0 THEN acc.stopLoss ELSE position.stopLoss,
    takeProfit |-> IF acc.takeProfit # 0 THEN acc.takeProfit ELSE position.takeProfit,
    nextPositions |-> IF position.amount - consume > 0
                      THEN Append(acc.nextPositions,
                                  [position EXCEPT !.amount = position.amount - consume])
                      ELSE acc.nextPositions ]

RECURSIVE ConsumeFrom(_, _, _, _, _)
ConsumeFrom(lots, i, symbol, targetPositionId, acc) ==
  IF i > Len(lots) THEN acc
  ELSE IF \/ lots[i].symbol # symbol
          \/ (targetPositionId # NoId /\ lots[i].id # targetPositionId)
          \/ acc.remaining <= 0
  THEN ConsumeFrom(lots, i + 1, symbol, targetPositionId,
                   [acc EXCEPT !.nextPositions = Append(@, lots[i])])
  ELSE ConsumeFrom(lots, i + 1, symbol, targetPositionId,
                   consumeLot(lots[i], Min(lots[i].amount, acc.remaining), acc))

(* the result of consumePositions from the loop's variables r;             *)
(* weightedEntryPrice and weightedEntryFee are the sums over the consumed  *)
(* slice: the code's per-unit quotient times consumedAmount.               *)
consumeResult(st, r) ==
  IF r.consumedAmount <= 0
  THEN [ positions |-> st.activePositions, consumedAmount |-> 0,
         weightedEntryPrice |-> 0, weightedEntryFee |-> 0,
         stopLoss |-> r.stopLoss, takeProfit |-> r.takeProfit ]
  ELSE [ positions |-> r.nextPositions, consumedAmount |-> r.consumedAmount,
         weightedEntryPrice |-> r.weightedEntryPrice,
         weightedEntryFee |-> r.weightedEntryFee,
         stopLoss |-> r.stopLoss, takeProfit |-> r.takeProfit ]

(* variant that never looks at the target *)
consumePositions_untargeted(st, symbol, amountRequested, targetPositionId) ==
  consumeResult(st, ConsumeFrom(st.activePositions, 1, symbol, NoId,
                  [ remaining |-> amountRequested, consumedAmount |-> 0,
                    weightedEntryPrice |-> 0, weightedEntryFee |-> 0,
                    stopLoss |-> 0, takeProfit |-> 0, nextPositions |-> <<>> ]))

consumePositions(st, symbol, amountRequested, targetPositionId) ==
  consumeResult(st, ConsumeFrom(st.activePositions, 1, symbol, targetPositionId,
                  [ remaining |-> amountRequested, consumedAmount |-> 0,
                    weightedEntryPrice |-> 0, weightedEntryFee |-> 0,
                    stopLoss |-> 0, takeProfit |-> 0, nextPositions |-> <<>> ]))

(* generateTradeId: the template string as the tuple of its parts; seq is  *)
(* tradeSequence before the call                                           *)
generateTradeId(symbol, type, timestamp, seq) == <<symbol, type, timestamp, seq + 1>>

buyTrade(pending, id, ts) ==
  [ id |-> id, symbol |-> pending.symbol, type |-> "BUY",
    price |-> pending.simulation.entryPrice, amount |-> pending.amount,
    timestamp |-> ts, fee |-> pending.simulation.fees, pnl |-> 0,
    stopLoss |-> pending.stopLoss, takeProfit |-> pending.takeProfit,
    exitReason |-> "NONE" ]

buyPosition(pending, id, ts) ==
  [ id |-> id, symbol |-> pending.symbol,
    entryPrice |-> pending.simulation.entryPrice, amount |-> pending.amount,
    stopLoss |-> pending.stopLoss, takeProfit |-> pending.takeProfit,
    timestamp |-> ts,
    entryFeePerUnit |-> pending.simulation.fees \div Max(pending.amount, 1) ]

(* the ledger after a BUY of total cost totalCost *)
buyLedger(st, pending, totalCost, id, ts) ==
  recalculateSymbolState(
    [ recordTrade([st EXCEPT !.balance = st.balance - totalCost], buyTrade(pending, id, ts))
        EXCEPT !.activePositions = Append(@, buyPosition(pending, id, ts)) ],
    pending.symbol)

(* executeBuyTrade: seq is the module's tradeSequence, ts the Date.now()   *)
(* of the call.  The result is the new state and tradeSequence.            *)
executeBuyTrade(st, seq, pending, ts) ==
  IF pending.simulation.entryPrice * pending.amount * Mills + pending.simulation.fees
       > st.balance
  THEN [ state |-> st, tradeSequence |-> seq ]
  ELSE [ state |-> buyLedger(st, pending,
                     pending.simulation.entryPrice * pending.amount * Mills
                       + pending.simulation.fees,
                     generateTradeId(pending.symbol, "BUY", ts, seq), ts),
         tradeSequence |-> seq + 1 ]

(* exit fee, net revenue and realised pnl of a SELL of the consumed slice  *)
exitFeeOf(exitPrice, consumed) ==
  (exitPrice * consumed.consumedAmount * Mills) \div FEE_RATE_INV

netRevenueOf(exitPrice, consumed) ==
  exitPrice * consumed.consumedAmount * Mills - exitFeeOf(exitPrice, consumed)

(* variant whose cost basis leaves the entry fee out *)
sellPnl_withoutEntryFee(exitPrice, consumed) ==
  netRevenueOf(exitPrice, consumed) - consumed.weightedEntryPrice * Mills

(* pnl = netRevenue - costBasis, costBasis = entry value + entry fee       *)
sellPnl(exitPrice, consumed) ==
  netRevenueOf(exitPrice, consumed)
    - (consumed.weightedEntryPrice * Mills + consumed.weightedEntryFee)

(* fallback is params.fallbackMetadata: NoFallback when the caller passes   *)
(* none, else its stopLoss / takeProfit keys, which the object spread      *)
(* copies over the consumed lot's even when they are undefined (0).        *)
sellTrade(symbol, consumed, exitPrice, exitReason, fallback, id, ts) ==
  [ id |-> id, symbol |-> symbol, type |-> "SELL",
    price |-> exitPrice, amount |-> consumed.consumedAmount,
    timestamp |-> ts, fee |-> exitFeeOf(exitPrice, consumed),
    pnl |-> sellPnl(exitPrice, consumed),
    stopLoss |-> IF fallback.present THEN fallback.stopLoss ELSE consumed.stopLoss,
    takeProfit |-> IF fallback.present THEN fallback.takeProfit ELSE consumed.takeProfit,
    exitReason |-> exitReason ]

(* executeSellTrade once consumePositions has returned consumed *)
sellConsumed(st, seq, symbol, consumed, exitPrice, exitReason, fallback, ts) ==
  IF consumed.consumedAmount <= 0
  THEN [ state |-> st, tradeSequence |-> seq ]
  ELSE [ state |->
           recalculateSymbolState(
             recordTrade([ st EXCEPT !.balance = st.balance + netRevenueOf(exitPrice, consumed),
                                     !.activePositions = consumed.positions ],
                         sellTrade(symbol, consumed, exitPrice, exitReason, fallback,
                                   generateTradeId(symbol, "SELL", ts, seq), ts)),
             symbol),
         tradeSequence |-> seq + 1 ]

(* executeSellTrade: the new state and tradeSequence *)
executeSellTrade(st, seq, symbol, amount, marketPrice, atr, exitReason, targetPositionId, fallback, ts) ==
  sellConsumed(st, seq, symbol, consumePositions(st, symbol, amount, targetPositionId),
               simulateExitExecution(marketPrice, atr).exitPrice, exitReason, fallback, ts)

(* variant that tests the take-profit level first *)
exitReasonOf_takeProfitFirst(position, marketPrice) ==
  IF position.takeProfit # 0 /\ marketPrice >= position.takeProfit THEN "TAKE_PROFIT"
  ELSE IF position.stopLoss # 0 /\ marketPrice <= position.stopLoss THEN "STOP_LOSS"
  ELSE "NONE"

(* which exit a lot takes at the price: the stop-loss test comes first     *)
exitReasonOf(position, marketPrice) ==
  IF position.stopLoss # 0 /\ marketPrice <= position.stopLoss THEN "STOP_LOSS"
  ELSE IF position.takeProfit # 0 /\ marketPrice >= position.takeProfit THEN "TAKE_PROFIT"
  ELSE "NONE"

(* processAutoExits: the scan over the lots the symbol had when the scan   *)
(* started; r carries the state and tradeSequence.                         *)
RECURSIVE AutoExitFrom(_, _, _, _, _, _, _)
AutoExitFrom(positions, i, symbol, marketPrice, atr, ts, r) ==
  IF i > Len(positions) THEN r
  ELSE IF exitReasonOf(positions[i], marketPrice) = "NONE"
  THEN AutoExitFrom(positions, i + 1, symbol, marketPrice, atr, ts, r)
  ELSE AutoExitFrom(positions, i + 1, symbol, marketPrice, atr, ts,
         executeSellTrade(r.state, r.tradeSequence, symbol, positions[i].amount,
                          marketPrice, atr, exitReasonOf(positions[i], marketPrice),
                          positions[i].id, NoFallback, ts))

(* variant that stops the scan after the first lot of the symbol *)
processAutoExits_firstLotOnly(st, seq, symbol, marketPrice, atr, ts) ==
  AutoExitFrom(Take(lotsOf(st.activePositions, symbol), 1), 1, symbol, marketPrice, atr, ts,
               [state |-> st, tradeSequence |-> seq])

processAutoExits(st, seq, symbol, marketPrice, atr, ts) ==
  AutoExitFrom(lotsOf(st.activePositions, symbol), 1, symbol, marketPrice, atr, ts,
               [state |-> st, tradeSequence |-> seq])

(* ---------------------------------------------------------------------- *)
(* Risk manager (services/engine/riskManager.ts)                           *)
(* ---------------------------------------------------------------------- *)
closedTrades(trades) == SelectSeq(trades, LAMBDA t : t.type = "SELL")

(* every trade of a run falls on the current day *)
getDailyPnl(trades) == SumSeq(closedTrades(trades), LAMBDA t : t.pnl)

RECURSIVE lossStreakFrom(_, _)
lossStreakFrom(closed, i) ==
  IF i > Len(closed) \/ closed[i].pnl >= 0 THEN 0 ELSE 1 + lossStreakFrom(closed, i + 1)

getLossStreak(trades) == lossStreakFrom(closedTrades(trades), 1)

Rejected(reason) == [allowed |-> FALSE, reason |-> reason, amount |-> 0,
                     stopLoss |-> 0, takeProfit |-> 0]

(* evaluateRisk once the day's pnl and the loss streak are computed *)
riskDecision(st, price, atr, marketRegime, dailyPnl, lossStreak) ==
  LET maxDailyLoss == (st.totalPortfolioValue * parameters.dailyMaxLossPm) \div 1000
      baseRisk == (st.totalPortfolioValue * parameters.maxRiskPerTradePm) \div 1000
      streakMultiplier == Max(45, 100 - lossStreak * 15)
      dailyDrawdownMultiplier ==
        IF dailyPnl < 0
        THEN Max(500, 1000 + (dailyPnl * 1000) \div Max(maxDailyLoss, Mills))
        ELSE 1000
      effectiveRisk == (((baseRisk * streakMultiplier) \div 100)
                          * dailyDrawdownMultiplier) \div 1000
      stopDistance == atr * parameters.stopLossATR * parameters.atrMultiplier
      takeProfitDistance == atr * parameters.takeProfitATR * parameters.atrMultiplier
      stopLoss == price - stopDistance
      takeProfit == price + takeProfitDistance
      amountByRisk == effectiveRisk \div Max(stopDistance * Mills, 1)
      maxAffordable == st.balance \div (price * Mills)
      amount == Max(0, Min(amountByRisk, maxAffordable))
  IN IF st.balance <= MIN_BALANCE_USD * Mills THEN Rejected("Insufficient paper capital")
     ELSE IF marketRegime = "CHOP" THEN Rejected("Chop filter blocked low-quality setup")
     ELSE IF Len(st.activePositions) >= parameters.maxConcurrentTrades
       THEN Rejected("Max concurrent trades reached")
     ELSE IF dailyPnl <= -maxDailyLoss THEN Rejected("Daily max loss reached")
     ELSE IF lossStreak >= parameters.killSwitchLosses THEN Rejected("Kill-switch")
     ELSE IF atr <= 0 THEN Rejected("Invalid ATR")
     ELSE IF \/ atr * 1000 < parameters.minAtrPm * Max(price, 1)
             \/ atr * 1000 > parameters.maxAtrPm * Max(price, 1)
       THEN Rejected("ATR regime outside allowed volatility window")
     ELSE IF stopLoss <= 0 \/ takeProfit <= price
       THEN Rejected("Calculated stop-loss/take-profit invalid")
     ELSE IF amount * price < MIN_NOTIONAL_USD
       THEN Rejected("Position size below minimum practical threshold")
     ELSE [allowed |-> TRUE, reason |-> "Risk accepted", amount |-> amount,
           stopLoss |-> stopLoss, takeProfit |-> takeProfit]

(* the risk manager that counts no open lot *)
evaluateRisk_noLotLimit(st, symbol, price, atr, marketRegime) ==
  riskDecision([st EXCEPT !.activePositions = <<>>], price, atr, marketRegime,
               getDailyPnl(st.trades), getLossStreak(st.trades))

evaluateRisk(st, symbol, price, atr, marketRegime) ==
  riskDecision(st, price, atr, marketRegime, getDailyPnl(st.trades),
               getLossStreak(st.trades))

(* ---------------------------------------------------------------------- *)
(* Trade history journals (TradeHistoryService)                            *)
(* ---------------------------------------------------------------------- *)
(* variant that looks at the newest order only *)
hasOrderForIdempotencyKey_newestOnly(journal, key) ==
  /\ Len(journal) > 0
  /\ journal[Len(journal)].idempotencyKey = key
  /\ journal[Len(journal)].status # "SKIPPED"

hasOrderForIdempotencyKey(journal, key) ==
  \E i \in 1..Len(journal) :
     journal[i].idempotencyKey = key /\ journal[i].status # "SKIPPED"

(* Array.prototype.slice(start) for an integer start: a negative start    *)
(* counts from the end, and -0 is 0, the start of the array                *)
sliceFrom(s, start) ==
  IF start < 0 THEN SubSeq(s, Max(Len(s) + start, 0) + 1, Len(s))
  ELSE SubSeq(s, Min(start, Len(s)) + 1, Len(s))

NoFill == [status |-> "NONE"]

(* fillByOrder.get(orderId): the Map keeps the last fill written for a key *)
fillByOrder(fillJournal, orderId) ==
  IF \A i \in 1..Len(fillJournal) : fillJournal[i].orderId # orderId THEN NoFill
  ELSE fillJournal[CHOOSE i \in 1..Len(fillJournal) :
                     /\ fillJournal[i].orderId = orderId
                     /\ \A j \in (i + 1)..Len(fillJournal) : fillJournal[j].orderId # orderId]

joined(kept, fillJournal) ==
  [ i \in 1..Len(kept) |-> [order |-> kept[i], fill |-> fillByOrder(fillJournal, kept[i].orderId)] ]

(* getRecentTrades: the orders that are not SKIPPED, .slice(-limit),       *)
(* .reverse(), each with its fill                                          *)
getRecentTrades(journal, fillJournal, limit) ==
  joined(Reverse(sliceFrom(SelectSeq(journal, LAMBDA o : o.status # "SKIPPED"),
                           -Max(0, limit))),
         fillJournal)

OrderRecord(pt, orderId, decisionId, idempotencyKey, ts, status) ==
  [ orderId |-> orderId, decisionId |-> decisionId, idempotencyKey |-> idempotencyKey,
    ts |-> ts, symbol |-> pt.symbol, side |-> IF pt.action = "BUY" THEN "BUY" ELSE "SELL",
    qty |-> pt.amount, requestedPrice |-> pt.price, status |-> status ]

(* ---------------------------------------------------------------------- *)
(* confirmPendingTrade: h is the history (orders, fills, positions), ts    *)
(* the Date.now() of the call.  The template strings of the ids are        *)
(* modelled as tuples of their parts.                                      *)
(* ---------------------------------------------------------------------- *)
confirmOrderId(pt, ts) == <<pt.symbol, pt.action, ts>>
confirmDecisionId(pt, ts) ==
  IF pt.decisionId # NoId THEN pt.decisionId ELSE <<pt.symbol, ts, pt.action>>
confirmIdempotencyKey(pt, ts) ==
  IF pt.idempotencyKey # NoId THEN pt.idempotencyKey
  ELSE <<pt.symbol, confirmDecisionId(pt, ts), pt.action>>

(* the duplicate path: one SKIPPED order, the state returned as it came    *)
confirmSkipped(st, seq, h, pt, ts) ==
  [ state |-> st, tradeSequence |-> seq,
    orders |-> Append(h.orders,
                 OrderRecord(pt, confirmOrderId(pt, ts), confirmDecisionId(pt, ts),
                             confirmIdempotencyKey(pt, ts), ts, "SKIPPED")),
    fills |-> h.fills, positions |-> h.positions ]

(* the records of the ordinary path: the ACCEPTED order, then the fill and *)
(* the position snapshot of the state the ledger was left in               *)
confirmJournal(nextState, seq, h, pt, ts) ==
  [ state |-> nextState,
    tradeSequence |-> seq,
    orders |-> Append(h.orders,
                 OrderRecord(pt, confirmOrderId(pt, ts), confirmDecisionId(pt, ts),
                             confirmIdempotencyKey(pt, ts), ts, "ACCEPTED")),
    fills |-> Append(h.fills,
                [ fillId |-> <<confirmOrderId(pt, ts), "fill">>,
                  orderId |-> confirmOrderId(pt, ts), ts |-> ts,
                  symbol |-> pt.symbol, qty |-> pt.amount, avgPrice |-> pt.price,
                  fees |-> pt.fee, status |-> "FILLED" ]),
    positions |-> Append(h.positions,
                [ ts |-> ts, symbol |-> pt.symbol, balance |-> nextState.balance,
                  positionSize |-> HoldingOf(nextState, pt.symbol),
                  avgEntryPrice |-> AvgEntryOf(nextState, pt.symbol),
                  totalPortfolioValue |-> nextState.totalPortfolioValue ]) ]

(* traded: the state and tradeSequence executeBuyTrade / executeSellTrade  *)
(* returned                                                                *)
confirmTraded(traded, h, pt, ts) ==
  confirmJournal(recalculatePortfolioValue(traded.state, pt.symbol, pt.price),
                 traded.tradeSequence, h, pt, ts)

(* the ordinary path: ACCEPTED order, ledger, fill, position snapshot      *)
confirmAccepted(st, seq, h, pt, exitReason, ts) ==
  confirmTraded(
    IF pt.action = "BUY"
    THEN executeBuyTrade(st, seq, pt, ts)
    ELSE executeSellTrade(st, seq, pt.symbol, pt.amount, pt.price,
           IF pt.atr # 0 THEN pt.atr ELSE Max((pt.price * 3) \div 1000, 0),
           exitReason, NoId,
           [present |-> TRUE, stopLoss |-> pt.stopLoss, takeProfit |-> pt.takeProfit],
           ts),
    h, pt, ts)

(* variant without the idempotency check of lines 849-863 *)
confirmPendingTrade_unchecked(st, seq, h, pt, exitReason, ts) ==
  confirmAccepted(st, seq, h, pt, exitReason, ts)

confirmPendingTrade(st, seq, h, pt, exitReason, ts) ==
  IF hasOrderForIdempotencyKey(h.orders, confirmIdempotencyKey(pt, ts))
  THEN confirmSkipped(st, seq, h, pt, ts)
  ELSE confirmAccepted(st, seq, h, pt, exitReason, ts)

(* ---------------------------------------------------------------------- *)
(* deriveSignal.  The candle series is represented by what the function    *)
(* computes from it: the regime, whether the setup score passes the        *)
(* trend / ranging entry tests, the ATR, and whether the confidence        *)
(* reaches the caller's threshold.                                         *)
(* ---------------------------------------------------------------------- *)
CandleInputs ==
  { [regime |-> "TRENDING_UP", scoreOk |-> TRUE, rangingOk |-> FALSE, atr |-> 3,
     confident |-> TRUE],
    [regime |-> "TRENDING_DOWN", scoreOk |-> FALSE, rangingOk |-> FALSE, atr |-> 3,
     confident |-> TRUE],
    [regime |-> "CHOP", scoreOk |-> FALSE, rangingOk |-> FALSE, atr |-> 3,
     confident |-> FALSE] }

deriveSignal(st, c) ==
  [ action |-> IF c.regime = "TRENDING_UP" /\ c.scoreOk THEN "BUY"
               ELSE IF c.regime = "RANGING" /\ c.rangingOk THEN "BUY"
               ELSE IF c.regime \in {"TRENDING_DOWN", "HIGH_VOLATILITY"}
                       /\ HoldingOf(st, st.activeSymbol) > 0 THEN "SELL"
               ELSE "HOLD",
    marketRegime |-> c.regime,
    atr |-> c.atr,
    entryReason |-> "Confluence",
    notes |-> (IF c.regime = "CHOP"
               THEN <<"Chop regime detected; skipping low-volatility setups.">> ELSE <<>>)
              \o (IF c.regime = "HIGH_VOLATILITY"
                  THEN <<"High volatility regime; risk tightened.">> ELSE <<>>)
              \o (IF c.regime = "RANGING" /\ c.rangingOk
                  THEN <<"Ranging high-confluence entry allowed with extra RSI/momentum confirmation.">>
                  ELSE <<>>)
              \o (IF ~c.scoreOk THEN <<"Setup score below adaptive threshold.">> ELSE <<>>) ]

(* ---------------------------------------------------------------------- *)
(* core/CircuitBreaker.ts.  A percentage is kept as the pair of its        *)
(* numerator and denominator, so that a threshold test is exact.           *)
(* ---------------------------------------------------------------------- *)
Pct(num, den) == [num |-> num, den |-> den]

CircuitInit == [halted |-> FALSE, reasons |-> <<>>, manualResetRequired |-> FALSE]

breakerCfg ==
  [ maxDailyDrawdownPct |-> 5, maxConsecutiveLargeLosses |-> 3, volatilitySpikePct |-> 6 ]

tripReasons(input, cfg) ==
  (IF input.dailyDrawdownPct.num > cfg.maxDailyDrawdownPct * input.dailyDrawdownPct.den
   THEN <<"Daily drawdown exceeded">> ELSE <<>>)
  \o (IF input.consecutiveLargeLosses >= cfg.maxConsecutiveLargeLosses
      THEN <<"Consecutive large losses">> ELSE <<>>)
  \o (IF input.volatilityPct.num > cfg.volatilitySpikePct * input.volatilityPct.den
      THEN <<"Volatility spike">> ELSE <<>>)
  \o (IF input.wsUnstable THEN <<"WebSocket unstable">> ELSE <<>>)

latch(circuit, reasons) ==
  IF Len(reasons) > 0
  THEN [halted |-> TRUE, reasons |-> reasons, manualResetRequired |-> TRUE]
  ELSE circuit

(* the breaker as it would be if each call replaced the state *)
evaluate_unlatched(circuit, input, cfg) ==
  [ halted |-> Len(tripReasons(input, cfg)) > 0, reasons |-> tripReasons(input, cfg),
    manualResetRequired |-> Len(tripReasons(input, cfg)) > 0 ]

(* evaluate: the state after the call, which is also the value returned *)
evaluate(circuit, input, cfg) == latch(circuit, tripReasons(input, cfg))

reset == CircuitInit

(* ---------------------------------------------------------------------- *)
(* core/ExecutionEngine.ts and core/PortfolioRiskManager.ts.  In the       *)
(* engine quantities are in 1/10000 of a unit of the asset; the candles    *)
(* explored make every fee and pnl a whole number of mills.                *)
(* ---------------------------------------------------------------------- *)
slippageOf(candleHigh, candleLow, pctSlip) ==
  Max(((candleHigh - candleLow) * 8) \div 100, pctSlip)

executedPriceOf(side, expectedPrice, slippage) ==
  IF side = "BUY" THEN expectedPrice + slippage ELSE expectedPrice - slippage

filled(symbol, side, qty, executedPrice) ==
  [ symbol |-> symbol, type |-> side, price |-> executedPrice, amount |-> qty,
    fee |-> (executedPrice * qty) \div 10000, pnl |-> 0 ]

execute(symbol, side, qty, expectedPrice, candleHigh, candleLow, pctSlip) ==
  filled(symbol, side, qty,
         executedPriceOf(side, expectedPrice, slippageOf(candleHigh, candleLow, pctSlip)))

(* gross less fees, in mills, of qty bought at entryPrice *)
calcRealizedPnl(entryPrice, exitPrice, qty, fees) ==
  ((exitPrice - entryPrice) * qty) \div 10 - fees

exposureOf(activePositions, S) ==
  SumSeq(activePositions,
         LAMBDA pos : IF pos.symbol \in S THEN pos.amount * pos.entryPrice * Mills ELSE 0)

realizedToday(trades) ==
  SumSeq(trades, LAMBDA t : IF t.type = "SELL" THEN t.pnl ELSE 0)

(* PortfolioRiskManager.evaluate(...).allowed under the engine's limits:   *)
(* 8 open trades, 35 % per symbol, 80 % in all, 4 % daily loss             *)
riskGateAllowed(symbol, equity, activePositions, trades) ==
  /\ Len(activePositions) < 8
  /\ ~(equity > 0 /\ exposureOf(activePositions, {symbol}) * 100 > 35 * equity)
  /\ ~(equity > 0 /\ exposureOf(activePositions, Symbols) * 100 > 80 * equity)
  /\ ~(realizedToday(trades) * 100 <= -(equity * 4))

(* ---------------------------------------------------------------------- *)
(* core/MultiSymbolEngine.ts.  evaluateSymbol has no await in its body:    *)
(* a call runs to its end before any other call or callback starts.        *)
(* ---------------------------------------------------------------------- *)
(* no candle: an empty buffer.  Bars are numbered from 1 by their open    *)
(* time.                                                                   *)
NoCandle == [timestamp |-> 0]

(* the engine with, of the stream's buffer of each symbol, the last candle *)
EngineInit ==
  [ symbolStates |-> [s \in Symbols |-> [positions |-> <<>>, trades |-> <<>>]],
    counters |-> [totalEvaluations |-> 0, totalSignals |-> 0, totalTradesExecuted |-> 0],
    lastDecisionTsBySymbol |-> [s \in Symbols |-> 0],
    buffer |-> [s \in Symbols |-> NoCandle] ]
NoInput == [wsUnstable |-> FALSE, evaluated |-> FALSE]

(* the counters with the evaluation counted and the signal not *)
counted_evaluationsOnly(engine, action) ==
  [ engine EXCEPT !.counters.totalEvaluations = @ + 1 ]

(* lines 103-104 *)
counted(engine, action) ==
  [ engine EXCEPT !.counters.totalEvaluations = @ + 1,
                  !.counters.totalSignals = IF action # "HOLD" THEN @ + 1 ELSE @ ]

(* lines 132-136 *)
finalActionOf(decision) ==
  IF decision.action # "HOLD" /\ ~decision.confident THEN "HOLD" ELSE decision.action

lastSells(trades, n) ==
  SubSeq(SelectSeq(trades, LAMBDA t : t.type = "SELL"),
         Max(1, Len(SelectSeq(trades, LAMBDA t : t.type = "SELL")) - n + 1),
         Len(SelectSeq(trades, LAMBDA t : t.type = "SELL")))

largeLossesOf(trades) ==
  Len(SelectSeq(lastSells(trades, 3), LAMBDA t : t.pnl < -(20 * Mills)))

(* lines 146-153: what the engine hands to the breaker *)
breakerInput(trades, portfolio, updated, unstable) ==
  [ dailyDrawdownPct |->
      Pct(Max(0, (portfolio.totalPortfolioValue - portfolio.balance) * 100),
          Max(portfolio.totalPortfolioValue, Mills)),
    consecutiveLargeLosses |-> largeLossesOf(trades),
    volatilityPct |-> Pct(updated.atr * 100, Max(updated.close, 1)),
    wsUnstable |-> unstable, evaluated |-> TRUE ]

(* lines 196-199 and 233-236: the books after an execution *)
booked(engine, symbol, positions, trade, ts) ==
  [ engine EXCEPT !.symbolStates[symbol] =
                     [positions |-> positions, trades |-> Append(@.trades, trade)],
                  !.lastDecisionTsBySymbol[symbol] = ts,
                  !.counters.totalTradesExecuted = @ + 1 ]

openedBy(trade) ==
  [ symbol |-> trade.symbol, entryPrice |-> trade.price, amount |-> trade.amount ]

(* line 183: 8 % of the balance, between 0.0001 and 0.02 of a unit *)
buyQty(balance, close) == Max(1, Min(200, (balance * 4) \div (5 * close)))

buyBooked(engine, symbol, trade, ts) ==
  booked(engine, symbol, Append(engine.symbolStates[symbol].positions, openedBy(trade)),
         trade, ts)

(* lines 163-208 *)
engineBuy(engine, cb, symbol, updated, portfolio, pctSlip, input) ==
  IF Len(engine.symbolStates[symbol].positions) > 0
  THEN [engine |-> engine, breaker |-> cb, outcome |-> "POSITION_OPEN", input |-> input]
  ELSE IF ~riskGateAllowed(symbol, portfolio.totalPortfolioValue,
                           portfolio.activePositions, portfolio.trades)
  THEN [engine |-> engine, breaker |-> cb, outcome |-> "RISK_REJECTED", input |-> input]
  ELSE [ engine |-> buyBooked(engine, symbol,
                     execute(symbol, "BUY", buyQty(portfolio.balance, updated.close),
                             updated.close, updated.high, updated.low, pctSlip),
                     updated.timestamp),
         breaker |-> cb, outcome |-> "BUY", input |-> input ]

(* lines 231-232 *)
closedBy(pos, trade) ==
  [ trade EXCEPT !.pnl = calcRealizedPnl(pos.entryPrice, trade.price, pos.amount,
                           (pos.entryPrice * pos.amount) \div 10000 + trade.fee) ]

sellBooked(engine, symbol, pos, trade, ts) ==
  booked(engine, symbol, Tail(engine.symbolStates[symbol].positions), closedBy(pos, trade),
         ts)

(* lines 210-244 *)
engineSell(engine, cb, symbol, updated, pctSlip, input) ==
  IF Len(engine.symbolStates[symbol].positions) <= 0
  THEN [engine |-> engine, breaker |-> cb, outcome |-> "NO_POSITION", input |-> input]
  ELSE [ engine |-> sellBooked(engine, symbol, Head(engine.symbolStates[symbol].positions),
                     execute(symbol, "SELL",
                             Head(engine.symbolStates[symbol].positions).amount,
                             updated.close, updated.high, updated.low, pctSlip),
                     updated.timestamp),
         breaker |-> cb, outcome |-> "SELL", input |-> input ]

(* lines 158-244: cb is what breaker.evaluate returned *)
gated(engine, cb, symbol, finalAction, updated, portfolio, pctSlip, input) ==
  IF cb.halted
  THEN [engine |-> engine, breaker |-> cb, outcome |-> "HALTED", input |-> input]
  ELSE IF finalAction = "BUY"
  THEN engineBuy(engine, cb, symbol, updated, portfolio, pctSlip, input)
  ELSE engineSell(engine, cb, symbol, updated, pctSlip, input)

(* the decision carried out whatever bar the last order was for *)
decided_unguarded(engine, circuit, symbol, finalAction, updated, portfolio, pctSlip, input) ==
  IF finalAction = "HOLD"
  THEN [engine |-> engine, breaker |-> circuit, outcome |-> "HOLD", input |-> NoInput]
  ELSE gated(engine, evaluate(circuit, input, breakerCfg), symbol, finalAction, updated,
             portfolio, pctSlip, input)

(* lines 138-157 *)
decided(engine, circuit, symbol, finalAction, updated, portfolio, pctSlip, input) ==
  IF finalAction = "HOLD"
  THEN [engine |-> engine, breaker |-> circuit, outcome |-> "HOLD", input |-> NoInput]
  ELSE IF /\ engine.lastDecisionTsBySymbol[symbol] # 0
          /\ engine.lastDecisionTsBySymbol[symbol] = updated.timestamp
  THEN [engine |-> engine, breaker |-> circuit, outcome |-> "DUPLICATE", input |-> NoInput]
  ELSE gated(engine, evaluate(circuit, input, breakerCfg), symbol, finalAction, updated,
             portfolio, pctSlip, input)

(* evaluateSymbol: the engine and the breaker after the call, and what the *)
(* call logged; candle is the latest candle or NoCandle, decision what     *)
(* refinementEngine.decide answered, unstable stream.isUnstable(symbol),   *)
(* pctSlip the random part of the slippage                                 *)
evaluateSymbol(engine, circuit, symbol, candle, decision, portfolio, unstable, pctSlip) ==
  IF candle = NoCandle
  THEN [engine |-> engine, breaker |-> circuit, outcome |-> "NO_CANDLE", input |-> NoInput]
  ELSE decided(counted(engine, decision.action), circuit, symbol, finalActionOf(decision),
               candle, portfolio, pctSlip,
               breakerInput(engine.symbolStates[symbol].trades, portfolio, candle, unstable))

(* MarketStreamService.push: the candle replaces the last one of the       *)
(* buffer when it is for the same bar, and is appended otherwise           *)
pushed(engine, symbol, candle) == [engine EXCEPT !.buffer[symbol] = candle]

(* the stream's handler for a closed kline: push, then onCandleClose *)
onClosedKline(engine, circuit, symbol, candle, decision, portfolio, unstable, pctSlip) ==
  evaluateSymbol(pushed(engine, symbol, candle), circuit, symbol, candle, decision,
                 portfolio, unstable, pctSlip)

(* ---------------------------------------------------------------------- *)
(* State                                                                   *)
(* ---------------------------------------------------------------------- *)
VARIABLES
  state,          \* the BotState the caller holds (App's botState)
  pendingTrade,   \* the PendingTrade awaiting manual confirmation, or NoTrade
  submitted,      \* the PendingTrade last passed to confirmPendingTrade by the caller
  decisions,      \* journal of DecisionRecord
  orders,         \* journal of OrderRecord
  fills,          \* journal of FillRecord
  positions,      \* journal of PositionSnapshotRecord
  tradeSequence,  \* module-level counter of generateTradeId
  now,            \* the last value Date.now() returned
  ticks,          \* number of runBotEngineCycle (or evaluateSymbol) calls so far
  markPrice,      \* latest ticker price of each symbol
  last,           \* the last call: its arguments and outcome
  strategy,       \* the StrategyState kept under strategy_state.json
  refinementInFlight, \* the module-level flag of the refinement scheduler
  refiner,        \* the refinement cycles awaiting their analysis, and the starts so far
  breaker,        \* the CircuitState of the MultiSymbolEngine's breaker
  engine,         \* the MultiSymbolEngine: symbolStates, counters, lastDecisionTsBySymbol
  refinement,     \* the RefinementEngine: version, closedCountByVersion
  stream,         \* the MarketStreamService of one symbol, its socket and the exchange's bars
  pipeline,       \* a symbol's IndicatorState and the candles of its stream buffer
  historyStore,   \* TradeHistoryService's inMemory copy and localStorage item of a journal
  venueCalls      \* the placeOrder calls the ArbitrageEngine has made on its adapters

vars == <<state, pendingTrade, submitted, decisions, orders, fills, positions,
          tradeSequence, now, ticks, markPrice, last, strategy, refinementInFlight,
          refiner, breaker, engine, refinement, stream,
                 pipeline, historyStore,
                 venueCalls>>

history == [orders |-> orders, fills |-> fills, positions |-> positions]

NoCall == [op |-> "none", symbol |-> "", price |-> 0, outcome |-> "", key |-> NoId]

decisionRecord(symbol, decisionTs, signal) ==
  [ id |-> <<symbol, decisionTs, signal.action>>, ts |-> decisionTs, symbol |-> symbol,
    timeframe |-> runtimeConfig.timeframe, signal |-> signal.action,
    reasons |-> <<signal.entryReason>> \o signal.notes ]

toMarketStatus(regime) == IF regime = "CHOP" THEN "LOW_VOLATILITY" ELSE "ACTIVE"

(* a warning put at the head of aiWarnings, the list left to grow *)
warned_uncapped(st, warning) == [st EXCEPT !.aiWarnings = <<warning>> \o @]

(* a warning put at the head of aiWarnings, the list kept to 20 entries;   *)
(* the stale-data warning is written without the age it ends with         *)
warned(st, warning) == [st EXCEPT !.aiWarnings = Take(<<warning>> \o @, MAX_WARNINGS)]

staleWarning(symbol) ==
  IF symbol = "BTC-USDC" THEN "Stale market data for BTC-USDC"
  ELSE "Stale market data for ETH-USDC"

(* lines 678-684: the state the evaluation starts from *)
cycleStart(st, signal, stored) ==
  [ st EXCEPT !.aiWarnings = stored.warnings,
              !.marketStatus = toMarketStatus(signal.marketRegime) ]

(* the training log written for BUY and SELL signals only *)
logged_tradesOnly(st, signal, clock) ==
  IF signal.action = "HOLD" THEN st
  ELSE [ st EXCEPT !.trainingDataLog =
           Take(<<[ timestamp |-> clock, action |-> signal.action,
                    marketStatus |-> st.marketStatus,
                    marketRegime |-> signal.marketRegime ]>>
                \o @, MAX_TRAINING_LOG) ]

(* lines 815-832: the cycle's entry at the head of the training log *)
logged(st, signal, clock) ==
  [ st EXCEPT !.trainingDataLog =
      Take(<<[ timestamp |-> clock, action |-> signal.action,
               marketStatus |-> st.marketStatus, marketRegime |-> signal.marketRegime ]>>
           \o @, MAX_TRAINING_LOG) ]

(* the three filters on an allowed BUY: expected edge, position size,      *)
(* exposure; tpv is the portfolio value the state carried into the cycle   *)
buyBlocked(balance, tpv, currentPrice, risk) ==
  \/ (risk.takeProfit - currentPrice) * 10000
        < runtimeConfig.minExpectedEdgePer10k * Max(currentPrice - risk.stopLoss, 0)
  \/ risk.amount * currentPrice * Mills * 100 > runtimeConfig.maxPositionSizePct * Max(tpv, 0)
  \/ (tpv - balance + risk.amount * currentPrice * Mills) * 100
        > runtimeConfig.maxExposurePct * Max(tpv, 0)

buyPending(symbol, signal, risk, decisionTs, simulation) ==
  [ symbol |-> symbol, action |-> "BUY", price |-> simulation.entryPrice,
    amount |-> risk.amount, fee |-> simulation.fees,
    stopLoss |-> risk.stopLoss, takeProfit |-> risk.takeProfit, atr |-> signal.atr,
    simulation |-> simulation, decisionId |-> <<symbol, decisionTs, signal.action>>,
    idempotencyKey |-> <<symbol, runtimeConfig.timeframe, decisionTs, signal.action>> ]

sellPending(symbol, signal, holdings, simulation) ==
  [ symbol |-> symbol, action |-> "SELL", price |-> simulation.entryPrice,
    amount |-> holdings, fee |-> simulation.fees,
    stopLoss |-> 0, takeProfit |-> 0, atr |-> signal.atr,
    simulation |-> simulation, decisionId |-> NoId, idempotencyKey |-> NoId ]

(* the pendingTrade of the cycle, given the risk manager's answer *)
proposeTrade(afterExits, symbol, currentPrice, signal, confident, decisionTs, risk) ==
  IF ~(afterExits.isRunning /\ confident) THEN NoTrade
  ELSE IF signal.action = "SELL" /\ HoldingOf(afterExits, symbol) > 0
  THEN sellPending(symbol, signal, HoldingOf(afterExits, symbol),
         simulateEntryExecution("SELL", currentPrice, HoldingOf(afterExits, symbol),
                                signal.atr))
  ELSE IF /\ signal.action = "BUY"
          /\ risk.allowed
          /\ ~buyBlocked(afterExits.balance, afterExits.totalPortfolioValue, currentPrice,
                         risk)
  THEN buyPending(symbol, signal, risk, decisionTs,
         simulateEntryExecution("BUY", currentPrice, risk.amount, signal.atr))
  ELSE NoTrade

(* lines 717-779: the warning a BUY signal leaves when the risk manager    *)
(* rejects it or a filter blocks it                                        *)
riskWarned(afterExits, currentPrice, signal, confident, risk) ==
  IF ~(afterExits.isRunning /\ confident /\ signal.action = "BUY") THEN afterExits
  ELSE IF ~risk.allowed THEN warned(afterExits, risk.reason)
  ELSE IF buyBlocked(afterExits.balance, afterExits.totalPortfolioValue, currentPrice, risk)
  THEN warned(afterExits, "Risk filter blocked order.")
  ELSE afterExits

(* the end of the cycle: r is what the ledger and the journals were left   *)
(* as, pending the trade handed back to the caller                         *)
cycleResult(r, pending, journal, symbol, currentPrice, signal, clock) ==
  [ state |-> recalculatePortfolioValue(logged(r.state, signal, clock), symbol,
                                        currentPrice),
    pendingTrade |-> pending, tradeSequence |-> r.tradeSequence,
    decisions |-> journal, orders |-> r.orders, fills |-> r.fills,
    positions |-> r.positions, clock |-> clock ]

(* lines 810-836: the pending trade is confirmed at once in auto-paper     *)
(* mode                                                                    *)
cycleWithPending(exits, h, journal, symbol, currentPrice, signal, pending, t0, lag) ==
  IF pending # NoTrade /\ exits.state.autoPaperTrading
  THEN cycleResult(confirmPendingTrade(exits.state, exits.tradeSequence, h, pending,
                                       "SIGNAL", t0 + lag),
                   NoTrade, journal, symbol, currentPrice, signal, t0 + lag)
  ELSE cycleResult([ state |-> exits.state, tradeSequence |-> exits.tradeSequence,
                     orders |-> h.orders, fills |-> h.fills, positions |-> h.positions ],
                   pending, journal, symbol, currentPrice, signal, t0)

(* lines 717-808 once the risk manager has answered *)
cycleProposed(exits, h, journal, symbol, currentPrice, signal, confident, t0, lag, risk) ==
  cycleWithPending(
    [exits EXCEPT !.state = riskWarned(exits.state, currentPrice, signal, confident, risk)],
    h, journal, symbol, currentPrice, signal,
    proposeTrade(exits.state, symbol, currentPrice, signal, confident, t0, risk),
    t0, lag)

(* lines 688-808: the decision record and the proposal, after the exits    *)
cycleAfterExits(exits, h, journal, symbol, currentPrice, signal, confident, t0, lag) ==
  cycleProposed(exits, h, Append(journal, decisionRecord(symbol, t0, signal)), symbol,
    currentPrice, signal, confident, t0, lag,
    evaluateRisk(exits.state, symbol, currentPrice, signal.atr, signal.marketRegime))

(* ---------------------------------------------------------------------- *)
(* runBotEngineCycle, as a function of its input and of what it reads:     *)
(* the returned state and pendingTrade and the journals it leaves.         *)
(* data is "ok", "invalid" (missing / non-finite price) or "stale"; t0 is  *)
(* Date.now() up to the decision record and lag the milliseconds that     *)
(* pass before confirmPendingTrade reads the clock.                        *)
(* ---------------------------------------------------------------------- *)
runBotEngineCycle(st, seq, h, journal, stored, inputSymbol, currentPrice, c, data, t0, lag) ==
  IF data # "ok"
  THEN [ state |-> warned(st, IF data = "invalid"
                              THEN "Invalid market data: missing/NaN price candle."
                              ELSE staleWarning(normalizeSymbol(inputSymbol))),
         pendingTrade |-> NoTrade, tradeSequence |-> seq,
         decisions |-> journal, orders |-> h.orders, fills |-> h.fills,
         positions |-> h.positions, clock |-> t0 ]
  ELSE cycleAfterExits(
         processAutoExits(cycleStart(st, deriveSignal(st, c), stored), seq,
                          normalizeSymbol(inputSymbol), currentPrice,
                          deriveSignal(st, c).atr, t0),
         h, journal, normalizeSymbol(inputSymbol), currentPrice, deriveSignal(st, c),
         c.confident, t0, lag)

(* ---------------------------------------------------------------------- *)
(* services/engine/strategyState.ts.  A StrategyParameters value is a      *)
(* record of its ten fields in 1/10000 (the two counts included, so that   *)
(* Math.round has something to round); a version 'v<k>' is the number k;   *)
(* a lastRefinementTime of null is 0, as the scheduler reads it.           *)
(* ---------------------------------------------------------------------- *)
MAX_HISTORY == 40
MAX_PARAMETER_CHANGE_PCT == 15

DEFAULT_STRATEGY_PARAMETERS ==
  [ minScore |-> 6800, atrMultiplier |-> 12000, stopLossATR |-> 16000,
    takeProfitATR |-> 24000, maxRiskPerTradePct |-> 120, dailyMaxLossPct |-> 400,
    maxConcurrentTrades |-> 20000, killSwitchLosses |-> 30000, minAtrPct |-> 20,
    maxAtrPct |-> 300 ]

buildInitialState ==
  [ version |-> 1, parameters |-> DEFAULT_STRATEGY_PARAMETERS, lastRefinementTime |-> 0,
    history |-> <<>>, warnings |-> <<>> ]

(* the version number of a stored version text; anything that is not a     *)
(* positive number counts as 1                                             *)
parseVersionNumber(version) == IF version > 0 THEN version ELSE 1

(* the version that does not advance *)
nextVersion_same(currentVersion) == parseVersionNumber(currentVersion)

nextVersion(currentVersion) == parseVersionNumber(currentVersion) + 1

(* the change the refiner may make to one parameter: within 15% of the     *)
(* current value (to the 1/10000)                                          *)
boundedChange(current, suggested) ==
  IF (current * MAX_PARAMETER_CHANGE_PCT) \div 100 = 0 THEN suggested
  ELSE Max(current - (current * MAX_PARAMETER_CHANGE_PCT) \div 100,
           Min(current + (current * MAX_PARAMETER_CHANGE_PCT) \div 100, suggested))

(* the sanitizer bounds, lowest and highest value of each field *)
ParameterBounds ==
  [ minScore |-> <<5000, 9500>>, atrMultiplier |-> <<6000, 25000>>,
    stopLossATR |-> <<8000, 35000>>, takeProfitATR |-> <<12000, 50000>>,
    maxRiskPerTradePct |-> <<30, 300>>, dailyMaxLossPct |-> <<100, 1000>>,
    maxConcurrentTrades |-> <<10000, 50000>>, killSwitchLosses |-> <<20000, 60000>>,
    minAtrPct |-> <<8, 200>>, maxAtrPct |-> <<50, 800>> ]

(* Math.round of a non-negative value in 1/10000 *)
MathRound(x) == ((x + 5000) \div 10000) * 10000

clampTo(value, range) == Max(range[1], Min(range[2], value))

sanitizeParameters(raw) ==
  [ f \in DOMAIN ParameterBounds |->
      IF f \in {"maxConcurrentTrades", "killSwitchLosses"}
      THEN clampTo(MathRound(raw[f]), ParameterBounds[f])
      ELSE clampTo(raw[f], ParameterBounds[f]) ]

(* the item under strategy_state.json: absent, or the last state saved *)
NoItem == [ present |-> FALSE, version |-> 0, parameters |-> DEFAULT_STRATEGY_PARAMETERS,
            lastRefinementTime |-> 0, history |-> <<>>, warnings |-> <<>> ]

loadStrategyState(item) ==
  IF ~item.present THEN buildInitialState
  ELSE [ version |-> item.version, parameters |-> sanitizeParameters(item.parameters),
         lastRefinementTime |-> item.lastRefinementTime,
         history |-> Take(item.history, MAX_HISTORY),
         warnings |-> Take(item.warnings, MAX_WARNINGS) ]

(* the item saveStrategyState writes (and the state it returns) *)
saveStrategyState(st) ==
  [ present |-> TRUE, version |-> st.version,
    parameters |-> sanitizeParameters(st.parameters),
    lastRefinementTime |-> st.lastRefinementTime,
    history |-> Take(st.history, MAX_HISTORY),
    warnings |-> Take(st.warnings, MAX_WARNINGS) ]

(* suggested: the fields minScore, atrMultiplier, stopLossATR, 0 for one   *)
(* that is not suggested                                                   *)
buildCandidateParameters(base, suggested) ==
  sanitizeParameters(
    [ base EXCEPT
        !.minScore = IF suggested.minScore # 0
                     THEN boundedChange(@, suggested.minScore) ELSE @,
        !.atrMultiplier = IF suggested.atrMultiplier # 0
                          THEN boundedChange(@, suggested.atrMultiplier) ELSE @,
        !.stopLossATR = IF suggested.stopLossATR # 0
                        THEN boundedChange(@, suggested.stopLossATR) ELSE @ ])

(* the state commitStrategyParameters builds from the one it loaded *)
committed(current, newVersion, params, notes, timestamp) ==
  [ version |-> newVersion, parameters |-> sanitizeParameters(params),
    lastRefinementTime |-> timestamp,
    history |-> Take(<<[ version |-> newVersion, timestamp |-> timestamp,
                         parameters |-> params, notes |-> notes ]>>
                     \o current.history, MAX_HISTORY),
    warnings |-> Take(current.warnings, MAX_WARNINGS) ]

commitStrategyParameters(item, params, notes, timestamp) ==
  saveStrategyState(committed(loadStrategyState(item),
                              nextVersion(loadStrategyState(item).version),
                              params, notes, timestamp))

updateStrategyWarnings(item, warnings) ==
  saveStrategyState([loadStrategyState(item) EXCEPT !.warnings = Take(warnings, MAX_WARNINGS)])

(* ---------------------------------------------------------------------- *)
(* The stored strategy the ledger runs under: version v2, committed at     *)
(* time 0, so that within the run the scheduler call at the head of        *)
(* runBotEngineCycle finds the 24 hours not yet elapsed.  Its parameters   *)
(* are those of the definition parameters, here in 1/10000.                *)
(* ---------------------------------------------------------------------- *)
InForceParameters ==
  [ minScore |-> 6800, atrMultiplier |-> 10000, stopLossATR |-> 20000,
    takeProfitATR |-> 30000, maxRiskPerTradePct |-> 120, dailyMaxLossPct |-> 400,
    maxConcurrentTrades |-> 20000, killSwitchLosses |-> 30000, minAtrPct |-> 20,
    maxAtrPct |-> 300 ]

StoredStrategy(warnings) ==
  [ present |-> TRUE, version |-> 2, parameters |-> InForceParameters,
    lastRefinementTime |-> 0,
    history |-> <<[ version |-> 2, timestamp |-> 0, parameters |-> InForceParameters,
                    notes |-> <<>> ]>>,
    warnings |-> warnings ]

OldWarnings ==
  [i \in 1..MAX_WARNINGS |-> "Refinement rejected. Previous strategy snapshot retained."]

RefinerInit == [running |-> <<>>, starts |-> <<>>]

(* ---------------------------------------------------------------------- *)
(* core/RefinementEngine.  A candle carries close, emaShort, emaLong and   *)
(* atr in whole USD (0 stands for an absent indicator) and rsi in points;   *)
(* a confidence is in 1/100000, the decay in thousandths.  A version       *)
(* rf-<Date.now()> is the number of its clock reading.                     *)
(* ---------------------------------------------------------------------- *)
RefinementInit == [version |-> 0, closedCountByVersion |-> <<>>]

(* closedCountByVersion.get(version) || 0 *)
closedCount(re, version) ==
  IF version \in DOMAIN re.closedCountByVersion THEN re.closedCountByVersion[version] ELSE 0

orElse(v, d) == IF v = 0 THEN d ELSE v

(* numerator of trend; its denominator is Max(close, 1) *)
trendOver(c) == orElse(c.emaShort, c.close) - orElse(c.emaLong, c.close)

Abs(x) == IF x < 0 THEN -x ELSE x

clamp(v, lo, hi) == Max(lo, Min(hi, v))

rawConfidence(c) ==
  clamp((Abs(trendOver(c)) * 35000000) \div Max(c.close, 1)
          + (orElse(c.rsi, 50) - 50) * 1000, 0, 100000)

decay(re) == Max(700, 1000 - closedCount(re, re.version) * 2)

evaluateStrategy(re, candles) ==
  IF Len(candles) = 0
  THEN [decision |-> "HOLD", confidence |-> 0]
  ELSE [ decision |-> IF trendOver(candles[Len(candles)]) * 10000
                           > 12 * Max(candles[Len(candles)].close, 1) THEN "BUY"
                      ELSE IF trendOver(candles[Len(candles)]) * 10000
                           < -12 * Max(candles[Len(candles)].close, 1) THEN "SELL"
                      ELSE "HOLD",
         confidence |-> clamp((rawConfidence(candles[Len(candles)]) * decay(re)) \div 1000,
                              0, 100000) ]

regimeOf(candles) ==
  IF Len(candles) = 0 THEN "RANGING"
  ELSE IF candles[Len(candles)].atr * 100 > 2 * Max(candles[Len(candles)].close, 1)
       THEN "VOLATILE"
  ELSE IF Abs(trendOver(candles[Len(candles)])) * 10000
          > 15 * Max(candles[Len(candles)].close, 1) THEN "TRENDING"
  ELSE "RANGING"

decide(re, candles) ==
  [ action |-> evaluateStrategy(re, candles).decision,
    confidence |-> evaluateStrategy(re, candles).confidence,
    regime |-> regimeOf(candles),
    modelVersion |-> re.version ]

NoVersion == -1

(* trade.modelVersion || this.version, then the count of that version *)
registerClosedTrade(re, modelVersion) ==
  [ re EXCEPT !.closedCountByVersion =
      [ v \in DOMAIN re.closedCountByVersion
                \cup {IF modelVersion = NoVersion THEN re.version ELSE modelVersion} |->
          IF v = (IF modelVersion = NoVersion THEN re.version ELSE modelVersion)
          THEN closedCount(re, v) + 1 ELSE closedCount(re, v) ] ]

bumpVersion(re) == [re EXCEPT !.version = re.version + 1]

(* ---------------------------------------------------------------------- *)
(* core/MarketStreamService, for one subscribed symbol.  A bar is the      *)
(* number of its open time; a candle is its bar.  closedBar is the latest  *)
(* bar closed on the exchange, wire the closed klines the exchange has     *)
(* sent on the open socket and the client has not read yet.                *)
(* ---------------------------------------------------------------------- *)
maxBuffer == 500
RestBackfill == 20

HEARTBEAT_MS == 5000
SILENCE_MS == 20000

(* silence counts the heartbeats of the current socket since its last      *)
(* message; beating says the interval of the current socket is scheduled,  *)
(* staleTimers counts the intervals of earlier sockets still scheduled     *)
StreamInit ==
  [ socket |-> "NONE", buffer |-> <<>>, handled |-> <<>>, unstable |-> FALSE,
    reconnectAttempt |-> 0, refreshing |-> 0, closedBar |-> 0, subscribedAt |-> 0,
    wire |-> <<>>, silence |-> 0, beating |-> FALSE, staleTimers |-> 0, shut |-> FALSE ]

isUnstable(st) == st.unstable

(* connect: a new socket and its heartbeat, which takes the symbol's place *)
(* in the heartbeat map; the interval it replaces there stays scheduled    *)
connect(st) ==
  [ st EXCEPT !.socket = "OPEN", !.silence = 0, !.beating = TRUE,
              !.staleTimers = st.staleTimers + (IF st.beating THEN 1 ELSE 0) ]

(* shutdown: ws.close() on the socket kept for the symbol (its close event *)
(* follows), clearInterval on the heartbeat kept for the symbol            *)
shutdown(st) ==
  [ st EXCEPT !.socket = IF st.socket = "OPEN" THEN "CLOSING" ELSE st.socket,
              !.beating = FALSE, !.shut = TRUE ]

(* services/marketService getKlines: the last n bars up to the latest closed *)
getKlines(closedBar, n) ==
  [i \in 1..Min(n, closedBar + 1) |-> closedBar - Min(n, closedBar + 1) + i]

spliced(current) ==
  IF Len(current) > maxBuffer
  THEN SubSeq(current, Len(current) - maxBuffer + 1, Len(current)) ELSE current

push(current, candle) ==
  spliced(IF Len(current) > 0 /\ current[Len(current)] = candle
          THEN [current EXCEPT ![Len(current)] = candle]
          ELSE Append(current, candle))

RECURSIVE pushAll(_, _)
pushAll(current, rest) ==
  IF rest = <<>> THEN current ELSE pushAll(push(current, Head(rest)), Tail(rest))

(* ---------------------------------------------------------------------- *)
(* core/IndicatorEngine, for one symbol.  Prices and averages are whole    *)
(* USD, a quotient rounded down; Undefined stands for a field not set yet. *)
(* A raw candle carries no indicator: emaShort, emaLong, rsi and atr are 0 *)
(* (absent).                                                               *)
(* ---------------------------------------------------------------------- *)
Undefined == -1

IndicatorInit ==
  [ emaShort |-> Undefined, emaLong |-> Undefined, prevClose |-> Undefined,
    avgGain |-> Undefined, avgLoss |-> Undefined, atr |-> Undefined, trCount |-> 0,
    volumeWindow |-> <<>> ]

ema(price, prev, period) ==
  IF prev = Undefined THEN price ELSE prev + ((price - prev) * 2) \div (period + 1)

(* Wilder's average over 14 *)
smoothed(prev, x) == IF prev = Undefined THEN x ELSE (prev * 13 + x) \div 14

rsiOf(avgGain, avgLoss) ==
  IF avgLoss = 0 THEN (IF avgGain = 0 THEN 0 ELSE 100)
  ELSE 100 - (100 * avgLoss) \div (avgGain + avgLoss)

trueRange(candle, prevClose) ==
  Max(candle.high - candle.low,
      Max(Abs(candle.high - prevClose), Abs(candle.low - prevClose)))

window20(w) == IF Len(w) > 20 THEN Tail(w) ELSE w

(* lines 24-49: the running state after the candle *)
advanced(st, candle) ==
  [ emaShort |-> ema(candle.close, st.emaShort, 9),
    emaLong |-> ema(candle.close, st.emaLong, 21),
    prevClose |-> candle.close,
    avgGain |-> IF st.prevClose = Undefined THEN st.avgGain
                ELSE smoothed(st.avgGain, Max(0, candle.close - st.prevClose)),
    avgLoss |-> IF st.prevClose = Undefined THEN st.avgLoss
                ELSE smoothed(st.avgLoss, Max(0, st.prevClose - candle.close)),
    atr |-> IF st.prevClose = Undefined THEN st.atr
            ELSE smoothed(st.atr, trueRange(candle, st.prevClose)),
    trCount |-> IF st.prevClose = Undefined THEN st.trCount ELSE st.trCount + 1,
    volumeWindow |-> window20(Append(st.volumeWindow, candle.volume)) ]

(* lines 35, 44, 52-55: the candle with the indicators written on it *)
annotated(candle, before, after) ==
  [ candle EXCEPT
      !.emaShort = after.emaShort,
      !.emaLong = after.emaLong,
      !.rsi = IF before.prevClose = Undefined THEN @ ELSE rsiOf(after.avgGain, after.avgLoss),
      !.atr = IF before.prevClose = Undefined THEN @ ELSE after.atr ]

(* update: the state kept for the symbol and the candle returned *)
update(st, candle) ==
  [state |-> advanced(st, candle), candle |-> annotated(candle, st, advanced(st, candle))]

(* MultiSymbolEngine.ts line 101: the series handed to decide *)
decisionSeries(buffer, updated) == IF Len(buffer) > 0 THEN buffer ELSE <<updated>>

(* the candle push stores: the last one replaced when it is of the same bar *)
pushCandle(current, candle) ==
  spliced(IF Len(current) > 0 /\ current[Len(current)].timestamp = candle.timestamp
          THEN [current EXCEPT ![Len(current)] = candle]
          ELSE Append(current, candle))

PipelineInit == [indicator |-> IndicatorInit, buffer |-> <<>>]

(* ---------------------------------------------------------------------- *)
(* The journal store of TradeHistoryService in the browser (appendRecord): *)
(* the module's inMemory copy and the localStorage item, for one journal.  *)
(* A record is its number.                                                 *)
(* ---------------------------------------------------------------------- *)
NoHistory == [present |-> FALSE, records |-> <<>>]

HistoryInit == [inMemory |-> <<>>, item |-> NoHistory]

(* loadStorage: inMemory after the call, which is also the value returned; *)
(* readable is false when getItem or JSON.parse throws                     *)
loadStorage(h, readable) ==
  IF readable /\ h.item.present THEN h.item.records ELSE h.inMemory

(* persistStorage: written is false when setItem throws *)
persistStorage(h, next, written) ==
  [ inMemory |-> next,
    item |-> IF written THEN [present |-> TRUE, records |-> next] ELSE h.item ]

appendRecord(h, record, readable, written) ==
  persistStorage(h, Append(loadStorage(h, readable), record), written)

(* ---------------------------------------------------------------------- *)
(* arbitrage/ArbitrageEngine.execute.  What a placeOrder call does is its  *)
(* outcome: the status of the ExchangeOrderResult it resolves with, or     *)
(* THROWN when it rejects.  A call is the venue, the side, the quantity    *)
(* and whether a price was given (a call without one is a market order).   *)
(* ---------------------------------------------------------------------- *)
OrderOutcomes == {"FILLED", "REJECTED", "PARTIAL", "THROWN"}

placeOrder(venue, side, qty, priced) ==
  [venue |-> venue, side |-> side, qty |-> qty, priced |-> priced]

(* lines 86-93: the hedge calls after the two legs have settled *)
hedgeCalls(opportunity, qty, buyLeg, sellLeg) ==
  (IF buyLeg # "THROWN" /\ sellLeg = "THROWN"
   THEN <<placeOrder(opportunity.buyExchange, "SELL", qty, FALSE)>> ELSE <<>>)
  \o (IF sellLeg # "THROWN" /\ buyLeg = "THROWN"
      THEN <<placeOrder(opportunity.sellExchange, "BUY", qty, FALSE)>> ELSE <<>>)

legStatus(leg) == IF leg = "THROWN" THEN "FAILED" ELSE leg

(* execute: the calls it made and the ArbitrageExecution it returned; when *)
(* the hedge call rejects, so does execute (returned is false)             *)
executeArbitrage(opportunity, qty, buyLeg, sellLeg, hedge) ==
  [ calls |-> << placeOrder(opportunity.buyExchange, "BUY", qty, TRUE),
                 placeOrder(opportunity.sellExchange, "SELL", qty, TRUE) >>
              \o hedgeCalls(opportunity, qty, buyLeg, sellLeg),
    returned |-> ~(Len(hedgeCalls(opportunity, qty, buyLeg, sellLeg)) > 0 /\ hedge = "THROWN"),
    buyLegStatus |-> legStatus(buyLeg),
    sellLegStatus |-> legStatus(sellLeg),
    hedgeExecuted |-> Len(hedgeCalls(opportunity, qty, buyLeg, sellLeg)) > 0 ]

(* the modes and stored warnings the ledger is started with *)
LedgerStarts ==
  { [auto |-> TRUE, warnings |-> <<>>], [auto |-> FALSE, warnings |-> OldWarnings] }

(* ---------------------------------------------------------------------- *)
(* Initial state: createInitialBotState with the bot switched on, in      *)
(* auto-paper or in manual-confirmation mode, and empty journals.          *)
(* ---------------------------------------------------------------------- *)
createInitialBotState(auto, warnings) ==
  [ isRunning |-> TRUE, autoPaperTrading |-> auto,
    balance |-> INITIAL_BALANCE * Mills,
    holdings |-> <<>>, averageEntryPrices |-> <<>>,
    activePositions |-> <<>>,
    totalPortfolioValue |-> INITIAL_BALANCE * Mills,
    activeSymbol |-> "BTC-USDC", trades |-> <<>>,
    marketStatus |-> "ACTIVE", trainingDataLog |-> <<>>,
    aiWarnings |-> warnings ]

InitLedger ==
  /\ \E start \in LedgerStarts :
       /\ state = createInitialBotState(start.auto, start.warnings)
       /\ strategy = StoredStrategy(start.warnings)
  /\ refinementInFlight = FALSE
  /\ refiner = RefinerInit
  /\ pendingTrade = NoTrade
  /\ submitted = NoTrade
  /\ decisions = <<>>
  /\ orders = <<>>
  /\ fills = <<>>
  /\ positions = <<>>
  /\ tradeSequence = 0
  /\ now = 0
  /\ ticks = 0
  /\ markPrice = [s \in Symbols |-> 100]
  /\ last = NoCall
  /\ refinement = RefinementInit
  /\ stream = StreamInit
  /\ pipeline = PipelineInit
  /\ historyStore = HistoryInit
  /\ venueCalls = <<>>

Init == InitLedger /\ breaker = CircuitInit /\ engine = EngineInit

(* ---------------------------------------------------------------------- *)
(* Actions.  Every call starts at least one millisecond after the last     *)
(* clock value read.                                                       *)
(* ---------------------------------------------------------------------- *)
(* the ticker inputs explored: BTC at each price, the second symbol at one *)
TickInputs == {<<"BTC-USDC", p>> : p \in Prices} \cup {<<"ETHUSDT", 100>>}

ConfirmCall(pt, ts) ==
  [ op |-> "confirm", symbol |-> pt.symbol, price |-> pt.price,
    outcome |-> IF hasOrderForIdempotencyKey(orders, confirmIdempotencyKey(pt, ts))
                THEN "SKIPPED" ELSE "ACCEPTED",
    key |-> confirmIdempotencyKey(pt, ts) ]

(* One tick: the caller runs runBotEngineCycle on the state it holds and   *)
(* keeps the result (App.runBotCycle, scripts/tradeOnce).                  *)
CycleReturns(r, lag) ==
  \* a later clock reading in confirmPendingTrade names the records of a
  \* SELL; for a BUY it only shifts the order id and the timestamps
  /\ lag = 1 => r.orders # orders /\ r.orders[Len(r.orders)].side = "SELL"
  /\ state' = r.state
  /\ pendingTrade' = r.pendingTrade
  /\ tradeSequence' = r.tradeSequence
  /\ decisions' = r.decisions
  /\ orders' = r.orders
  /\ fills' = r.fills
  /\ positions' = r.positions
  /\ now' = r.clock

RunBotEngineCycle(inputSymbol, currentPrice, c, data, lag) ==
  /\ ticks < MaxTicks
  /\ CycleReturns(runBotEngineCycle(state, tradeSequence, history, decisions,
                                    loadStrategyState(strategy),
                                    inputSymbol, currentPrice, c, data, now + 1, lag), lag)
  /\ ticks' = ticks + 1
  /\ markPrice' = IF data = "invalid" THEN markPrice
                  ELSE [markPrice EXCEPT ![normalizeSymbol(inputSymbol)] = currentPrice]
  /\ last' = [ op |-> "cycle", symbol |-> normalizeSymbol(inputSymbol),
               price |-> currentPrice, outcome |-> data, key |-> NoId ]
  /\ submitted' = NoTrade
  /\ UNCHANGED <<strategy, refinementInFlight, refiner, breaker, engine, refinement,
                 stream, pipeline, historyStore,
                 venueCalls>>

(* the caller keeps the state confirmPendingTrade returned for pt *)
ConfirmReturns(r, pt) ==
  /\ state' = r.state
  /\ tradeSequence' = r.tradeSequence
  /\ orders' = r.orders
  /\ fills' = r.fills
  /\ positions' = r.positions
  /\ submitted' = pt
  /\ last' = ConfirmCall(pt, now + 1)
  /\ pendingTrade' = NoTrade
  /\ now' = now + 1
  /\ UNCHANGED <<decisions, ticks, markPrice, strategy, refinementInFlight, refiner,
                 breaker, engine, refinement, stream,
                 pipeline, historyStore,
                 venueCalls>>

(* the trade the confirmation modal submits: a SELL with the chosen share  *)
(* of the amount and the fee of that value; the stop-loss and take-profit  *)
(* fields kept or typed the other way round                                *)
finalTrade(pt, amount, levels) ==
  [ pt EXCEPT !.amount = amount,
              !.fee = (amount * pt.price * Mills) \div FEE_RATE_INV,
              !.stopLoss = IF levels = "keep" THEN @ ELSE pt.takeProfit,
              !.takeProfit = IF levels = "keep" THEN @ ELSE pt.stopLoss ]

(* The user confirms the pending trade (App.confirmTrade).                 *)
ConfirmTrade(amount, levels) ==
  /\ pendingTrade # NoTrade
  /\ ~state.autoPaperTrading
  /\ Len(orders) < MaxOrders
  /\ amount \in 1..pendingTrade.amount
  /\ pendingTrade.action = "BUY" => amount = pendingTrade.amount
  /\ ConfirmReturns(confirmPendingTrade(state, tradeSequence, history,
                                        finalTrade(pendingTrade, amount, levels),
                                        "MANUAL", now + 1),
                    finalTrade(pendingTrade, amount, levels))

(* The caller passes the PendingTrade it has just confirmed to            *)
(* confirmPendingTrade again (a retried or replayed confirmation).         *)
RetryConfirm ==
  /\ submitted # NoTrade
  /\ Len(orders) < MaxOrders
  /\ ConfirmReturns(confirmPendingTrade(state, tradeSequence, history, submitted,
                                        "MANUAL", now + 1),
                    submitted)

Evaluate == \E in \in TickInputs, c \in CandleInputs, lag \in {0, 1} :
              RunBotEngineCycle(in[1], in[2], c, "ok", lag)

SkipStale == \E c \in CandleInputs :
               c.regime = "CHOP" /\ RunBotEngineCycle("BTC-USDC", 94, c, "stale", 0)

SkipInvalid == \E c \in CandleInputs :
                 c.regime = "CHOP" /\ RunBotEngineCycle("BTC-USDC", 0, c, "invalid", 0)

Confirm == /\ pendingTrade # NoTrade
           /\ \E a \in {1, pendingTrade.amount}, l \in {"keep", "swap"} : ConfirmTrade(a, l)

Next == Evaluate \/ SkipStale \/ SkipInvalid \/ Confirm \/ RetryConfirm

Spec == Init /\ [][Next]_vars

(* ---------------------------------------------------------------------- *)
(* The MultiSymbolEngine on its own: the stream and the scheduler call     *)
(* evaluateSymbol, an operator calls reset() on the breaker.  The          *)
(* portfolio getPortfolio() returns is the App's BotState of the moment:   *)
(* idle, holding the 3 BTC bought at 100, or flat after a loss of 50 USD.   *)
(* ---------------------------------------------------------------------- *)
MaxEvaluations == 3  \* evaluateSymbol calls explored

IdlePortfolio ==
  [ balance |-> INITIAL_BALANCE * Mills, totalPortfolioValue |-> INITIAL_BALANCE * Mills,
    activePositions |-> <<>>, trades |-> <<>> ]

EnginePortfolios ==
  { IdlePortfolio,
    [ balance |-> 699700, totalPortfolioValue |-> 999700,
      activePositions |-> <<[symbol |-> "BTC-USDC", amount |-> 3, entryPrice |-> 100]>>,
      trades |-> <<[type |-> "BUY", pnl |-> 0]>> ],
    [ balance |-> 950000, totalPortfolioValue |-> 950000, activePositions |-> <<>>,
      trades |-> <<[type |-> "BUY", pnl |-> 0], [type |-> "SELL", pnl |-> -50000]>> ] }

CalmCandle(t, c) ==
  [ timestamp |-> t, close |-> c, high |-> c + 250, low |-> c - 375, atr |-> 100 ]

(* the closed klines the stream may deliver for bar t: a calm one closing  *)
(* at 2450 or at 3450, and one closing at 3450 with an ATR of 7 per cent   *)
EngineCandles(t) ==
  { CalmCandle(t, 2450), CalmCandle(t, 3450), [CalmCandle(t, 3450) EXCEPT !.atr = 250] }

(* what an evaluation reads besides the candle: the portfolio of the       *)
(* moment and stream.isUnstable(symbol); the stream is seen unstable with  *)
(* the idle portfolio                                                      *)
EngineReadings ==
  { [portfolio |-> p, unstable |-> FALSE] : p \in EnginePortfolios }
    \cup { [portfolio |-> IdlePortfolio, unstable |-> TRUE] }

(* the bar after the last one the buffer holds *)
NextBar(e, symbol) == e.buffer[symbol].timestamp + 1

LosingBuy(e) ==
  onClosedKline(e, CircuitInit, "ETH-USDC", CalmCandle(NextBar(e, "ETH-USDC"), 3450),
                [action |-> "BUY", confident |-> TRUE], IdlePortfolio, FALSE, 1).engine

(* the engine after one more losing round trip on ETH-USDC: bought on a    *)
(* close of 3450, sold on the next close of 2450                           *)
LosingRoundTrip(e) ==
  onClosedKline(LosingBuy(e), CircuitInit, "ETH-USDC",
                CalmCandle(NextBar(LosingBuy(e), "ETH-USDC"), 2450),
                [action |-> "SELL", confident |-> TRUE], IdlePortfolio, FALSE, 1).engine

(* the engines the exploration starts from: the new one, and the one that  *)
(* has run two losing round trips                                          *)
EngineStarts == {EngineInit, LosingRoundTrip(LosingRoundTrip(EngineInit))}

EngineDecisions ==
  { [action |-> "HOLD", confident |-> TRUE], [action |-> "BUY", confident |-> TRUE],
    [action |-> "BUY", confident |-> FALSE], [action |-> "SELL", confident |-> TRUE] }

(* does a trip condition hold on the readings of this evaluation *)
TripCondition(e, symbol, candle, read) ==
  IF candle = NoCandle
  THEN FALSE
  ELSE Len(tripReasons(breakerInput(e.symbolStates[symbol].trades, read.portfolio, candle,
                                    read.unstable),
                       breakerCfg)) > 0

EngineReturns(r, symbol, candle, trigger, condition) ==
  /\ engine' = r.engine
  /\ breaker' = r.breaker
  /\ last' = [ op |-> "evaluateSymbol", symbol |-> symbol, price |-> candle.timestamp,
               outcome |-> r.outcome, key |-> NoId, input |-> r.input,
               trigger |-> trigger, tripCondition |-> condition ]
  /\ ticks' = ticks + 1
  /\ UNCHANGED <<state, pendingTrade, submitted, decisions, orders, fills, positions,
                 tradeSequence, now, markPrice, strategy, refinementInFlight, refiner,
                 refinement, stream,
                 pipeline, historyStore,
                 venueCalls>>

(* the stream delivers a closed kline: that of the bar after the last one  *)
(* of the buffer, or the last one again (after a reconnection)             *)
OnCandleClose ==
  /\ ticks < MaxEvaluations
  /\ \E symbol \in Symbols, decision \in EngineDecisions, read \in EngineReadings :
       \E candle \in EngineCandles(NextBar(engine, symbol))
                        \cup ({engine.buffer[symbol]} \ {NoCandle}) :
         EngineReturns(onClosedKline(engine, breaker, symbol, candle, decision,
                                     read.portfolio, read.unstable, 1),
                       symbol, candle, "CANDLE_CLOSE",
                       TripCondition(engine, symbol, candle, read))

(* the one-minute scheduler evaluates the last candle of the buffer *)
EvaluateSymbol ==
  /\ ticks < MaxEvaluations
  /\ \E symbol \in Symbols, decision \in EngineDecisions, read \in EngineReadings :
       EngineReturns(evaluateSymbol(engine, breaker, symbol, engine.buffer[symbol], decision,
                                    read.portfolio, read.unstable, 1),
                     symbol, engine.buffer[symbol], "SCHEDULED_1M",
                     TripCondition(engine, symbol, engine.buffer[symbol], read))

Reset ==
  /\ breaker' = reset
  /\ last' = [ op |-> "reset", symbol |-> "", price |-> 0, outcome |-> "", key |-> NoId,
               input |-> NoInput, trigger |-> "", tripCondition |-> FALSE ]
  /\ UNCHANGED <<state, pendingTrade, submitted, decisions, orders, fills, positions,
                 tradeSequence, now, ticks, markPrice, strategy, refinementInFlight,
                 refiner, engine, refinement, stream,
                 pipeline, historyStore,
                 venueCalls>>

InitEngine ==
  /\ InitLedger
  /\ ~state.autoPaperTrading
  /\ breaker = CircuitInit
  /\ engine \in EngineStarts

NextEngine == OnCandleClose \/ EvaluateSymbol \/ Reset

SpecEngine == InitEngine /\ [][NextEngine]_vars

(* ---------------------------------------------------------------------- *)
(* services/engine/performanceAnalyzer.ts.  A closed trade is its          *)
(* setupScore (1/10000), its regime and its pnl in whole USD; a drawdown   *)
(* is in millionths of a percent.                                          *)
(* ---------------------------------------------------------------------- *)
SetMax(S) == CHOOSE x \in S : \A y \in S : y <= x

equityAt(closed, k) == INITIAL_BALANCE + SumSeq(SubSeq(closed, 1, k), LAMBDA t : t.pnl)

peakAt(closed, k) == SetMax({equityAt(closed, j) : j \in 0..k})

drawdownPct(peak, equity) ==
  IF peak > 0 THEN (((peak - equity) * 100000) \div peak) * 1000 ELSE 0

calculatePerformanceMetrics(closed) ==
  [ closedTrades |-> Len(closed),
    grossProfit |-> SumSeq(closed, LAMBDA t : IF t.pnl > 0 THEN t.pnl ELSE 0),
    grossLossAbs |-> SumSeq(closed, LAMBDA t : IF t.pnl < 0 THEN -t.pnl ELSE 0),
    maxDrawdownPct |->
      SetMax({0} \cup {drawdownPct(peakAt(closed, k), equityAt(closed, k)) :
                        k \in 1..Len(closed)}) ]

(* candidate.profitFactor >= baseline.profitFactor, the profit factor      *)
(* being grossProfit / grossLossAbs, or with no loss Infinity when there   *)
(* is a profit and 0 when there is none                                    *)
profitFactorAtLeast(candidate, baseline) ==
  IF baseline.grossLossAbs > 0
  THEN IF candidate.grossLossAbs > 0
       THEN candidate.grossProfit * baseline.grossLossAbs
              >= baseline.grossProfit * candidate.grossLossAbs
       ELSE candidate.grossProfit > 0 \/ baseline.grossProfit = 0
  ELSE IF baseline.grossProfit > 0
       THEN candidate.grossLossAbs = 0 /\ candidate.grossProfit > 0
       ELSE TRUE

walkForwardFilterTrades(trades, params) ==
  SelectSeq(trades, LAMBDA t : t.setupScore >= params.minScore /\ t.marketRegime # "CHOP")

(* ---------------------------------------------------------------------- *)
(* services/ai/strategyRefiner.ts                                          *)
(* ---------------------------------------------------------------------- *)
MIN_TRADES_FOR_REFINEMENT == 20
MIN_FORWARD_TRADES == 6
DRAWDOWN_TOLERANCE == 1

(* splitWalkForward: the trades after the first 70% *)
forwardOf(trades) == SubSeq(trades, Max(1, (Len(trades) * 7) \div 10) + 1, Len(trades))

evaluateCandidate(trades, baselineParams, candidateParams) ==
  [ baseline |-> calculatePerformanceMetrics(
                   walkForwardFilterTrades(forwardOf(trades), baselineParams)),
    candidate |-> calculatePerformanceMetrics(
                    walkForwardFilterTrades(forwardOf(trades), candidateParams)) ]

NoMetrics == [closedTrades |-> 0, grossProfit |-> 0, grossLossAbs |-> 0, maxDrawdownPct |-> 0]
NotEvaluated == [baseline |-> NoMetrics, candidate |-> NoMetrics]

(* lines 95-101: the three checks on the forward window *)
walkForwardChecks(walkForward) ==
  [ drawdownNotWorse |-> walkForward.candidate.maxDrawdownPct
                           <= walkForward.baseline.maxDrawdownPct + DRAWDOWN_TOLERANCE,
    profitFactorImproved |-> profitFactorAtLeast(walkForward.candidate, walkForward.baseline),
    tradeCountOk |-> walkForward.candidate.closedTrades
                       >= Max(MIN_FORWARD_TRADES, walkForward.baseline.closedTrades \div 2) ]

hasSuggestions(analysis) ==
  \/ analysis.suggestedChanges.minScore # 0
  \/ analysis.suggestedChanges.atrMultiplier # 0
  \/ analysis.suggestedChanges.stopLossATR # 0

(* the forward-window metrics of a cycle whose analysis has come back *)
walkForwardOf(cycle, analysis) ==
  evaluateCandidate(cycle.closed24h, cycle.strategy.parameters,
                    buildCandidateParameters(cycle.strategy.parameters,
                                             analysis.suggestedChanges))

statusOf(analysis, threw, checks) ==
  IF threw THEN "failed"
  ELSE IF ~hasSuggestions(analysis) THEN "skipped"
  ELSE IF checks.drawdownNotWorse /\ checks.profitFactorImproved /\ checks.tradeCountOk
  THEN "applied"
  ELSE "rejected"

rejectionWarnings(checks, analysis) ==
  << "Refinement rejected. Previous strategy snapshot retained.",
     IF checks.drawdownNotWorse THEN "Drawdown check: pass" ELSE "Drawdown check: fail",
     IF checks.profitFactorImproved THEN "Profit factor check: pass"
     ELSE "Profit factor check: fail",
     IF checks.tradeCountOk THEN "Forward trade count check: pass"
     ELSE "Forward trade count check: fail" >> \o analysis.warnings

(* the skip of a cycle that finds fewer than 20 closed trades; the count   *)
(* is left out of the reason                                               *)
skippedEarly(item) ==
  updateStrategyWarnings(item,
    <<"Skipped refinement: minimum closed trades in 24h not reached.">>
      \o loadStrategyState(item).warnings)

(* a rejection that also stamps the time of the refinement *)
refinementStored_stamped(item, cycle, analysis, status, checks) ==
  CASE status = "failed" ->
         updateStrategyWarnings(item,
           <<"Refinement failed unexpectedly. Previous strategy state preserved.">>
             \o loadStrategyState(item).warnings)
    [] status = "skipped" -> updateStrategyWarnings(item, analysis.warnings)
    [] status = "applied" ->
         updateStrategyWarnings(
           commitStrategyParameters(item,
             buildCandidateParameters(cycle.strategy.parameters, analysis.suggestedChanges),
             <<"Refinement cycle", "PF", "DD">> \o analysis.warnings, cycle.now),
           analysis.warnings)
    [] status = "rejected" ->
         [updateStrategyWarnings(item, rejectionWarnings(checks, analysis))
            EXCEPT !.lastRefinementTime = cycle.now]

(* what the cycle leaves in the store once its status is known; the notes  *)
(* of a commit are written without the figures they quote                  *)
refinementStored(item, cycle, analysis, status, checks) ==
  CASE status = "failed" ->
         updateStrategyWarnings(item,
           <<"Refinement failed unexpectedly. Previous strategy state preserved.">>
             \o loadStrategyState(item).warnings)
    [] status = "skipped" -> updateStrategyWarnings(item, analysis.warnings)
    [] status = "applied" ->
         updateStrategyWarnings(
           commitStrategyParameters(item,
             buildCandidateParameters(cycle.strategy.parameters, analysis.suggestedChanges),
             <<"Refinement cycle", "PF", "DD">> \o analysis.warnings, cycle.now),
           analysis.warnings)
    [] status = "rejected" ->
         updateStrategyWarnings(item, rejectionWarnings(checks, analysis))

(* the result of a cycle that got past its analysis *)
cycleEnd(item, cycle, analysis, threw, walkForward) ==
  [ status |-> statusOf(analysis, threw, walkForwardChecks(walkForward)),
    stored |-> refinementStored(item, cycle, analysis,
                 statusOf(analysis, threw, walkForwardChecks(walkForward)),
                 walkForwardChecks(walkForward)),
    metricsBefore |-> walkForward.baseline, metricsAfter |-> walkForward.candidate ]

runStrategyRefinementCycle(item, cycle, analysis, threw) ==
  cycleEnd(item, cycle, analysis, threw,
           IF threw \/ ~hasSuggestions(analysis) THEN NotEvaluated
           ELSE walkForwardOf(cycle, analysis))

(* ---------------------------------------------------------------------- *)
(* The refinement scheduler of services/botEngine.ts and the cycles it     *)
(* starts.  A cycle runs without interruption up to its await of the       *)
(* analysis; one that is skipped before it has ended when the call         *)
(* returns.  Writes to localStorage are taken to succeed.                  *)
(* ---------------------------------------------------------------------- *)
REFINEMENT_INTERVAL_MS == 86400000
SCHEDULER_CHECK_MS == 60000

MaxRefinerSteps == 4

Rep(n, x) == [i \in 1..n |-> x]
ClosedTrade(score, regime, pnl) == [setupScore |-> score, marketRegime |-> regime, pnl |-> pnl]

(* the closed trades of the last 24 hours a cycle may find, oldest first:  *)
(* too few; twenty, the forward six sound; twenty, the strong setups of    *)
(* the forward window losing; forty-four, the forward window holding six   *)
(* strong winners, seven weaker losers and a chop trade                    *)
TradeBooks ==
  { Rep(10, ClosedTrade(9000, "TRENDING_UP", 5)),
    Rep(14, ClosedTrade(9000, "TRENDING_UP", 5))
      \o Rep(3, ClosedTrade(9000, "TRENDING_UP", 5))
      \o Rep(3, ClosedTrade(9000, "RANGING", -5)),
    Rep(14, ClosedTrade(9000, "TRENDING_UP", 5))
      \o Rep(3, ClosedTrade(7000, "TRENDING_UP", 5))
      \o Rep(3, ClosedTrade(9000, "RANGING", -5)),
    Rep(30, ClosedTrade(9000, "TRENDING_UP", 5))
      \o Rep(7, ClosedTrade(7000, "RANGING", -5))
      \o Rep(6, ClosedTrade(9000, "TRENDING_UP", 5))
      \o <<ClosedTrade(9000, "CHOP", -5)>> }

(* what analyzeWithGemini may answer: nothing to change, a higher score    *)
(* threshold, tighter ATR multiples                                        *)
Analyses ==
  { [ suggestedChanges |-> [minScore |-> 0, atrMultiplier |-> 0, stopLossATR |-> 0],
      warnings |-> <<"Gemini returned no actionable parameter updates.">> ],
    [ suggestedChanges |-> [minScore |-> 9500, atrMultiplier |-> 0, stopLossATR |-> 0],
      warnings |-> <<"Overtrading in weak regimes.">> ],
    [ suggestedChanges |-> [minScore |-> 0, atrMultiplier |-> 6000, stopLossATR |-> 8000],
      warnings |-> <<>> ] }

RemoveAt(s, k) == SubSeq(s, 1, k - 1) \o SubSeq(s, k + 1, Len(s))

(* runStrategyRefinementCycle up to its first await, called at now' *)
StartCycle(by, book) ==
  IF Len(book) < MIN_TRADES_FOR_REFINEMENT
  THEN /\ strategy' = skippedEarly(strategy)
       /\ refinementInFlight' = FALSE
       /\ refiner' = [refiner EXCEPT !.starts = Append(@, [by |-> by, at |-> now'])]
       /\ last' = [ op |-> by, outcome |-> "skipped", at |-> now',
                    metricsBefore |-> NoMetrics, metricsAfter |-> NoMetrics ]
  ELSE /\ strategy' = strategy
       /\ refinementInFlight' = TRUE
       /\ refiner' = [ running |-> Append(refiner.running,
                                     [ by |-> by, now |-> now',
                                       strategy |-> loadStrategyState(strategy),
                                       closed24h |-> book ]),
                       starts |-> Append(refiner.starts, [by |-> by, at |-> now']) ]
       /\ last' = [ op |-> by, outcome |-> "started", at |-> now',
                    metricsBefore |-> NoMetrics, metricsAfter |-> NoMetrics ]

NotStarted(by, why) ==
  /\ UNCHANGED <<strategy, refinementInFlight, refiner>>
  /\ last' = [ op |-> by, outcome |-> why, at |-> now',
               metricsBefore |-> NoMetrics, metricsAfter |-> NoMetrics ]

RefinerFrame ==
  UNCHANGED <<state, pendingTrade, submitted, decisions, orders, fills, positions,
              tradeSequence, markPrice, breaker, engine, refinement, stream,
                 pipeline, historyStore,
                 venueCalls>>

(* the scheduler that starts a cycle whatever the flag says *)
maybeScheduleRefinement_unguarded(book) ==
  IF now' - loadStrategyState(strategy).lastRefinementTime < REFINEMENT_INTERVAL_MS
  THEN NotStarted("scheduler", "NOT_DUE")
  ELSE StartCycle("scheduler", book)

maybeScheduleRefinement(book) ==
  IF refinementInFlight THEN NotStarted("scheduler", "IN_FLIGHT")
  ELSE IF now' - loadStrategyState(strategy).lastRefinementTime < REFINEMENT_INTERVAL_MS
  THEN NotStarted("scheduler", "NOT_DUE")
  ELSE StartCycle("scheduler", book)

triggerStrategyRefinement(book) ==
  IF refinementInFlight THEN NotStarted("trigger", "RUNNING")
  ELSE StartCycle("trigger", book)

(* the 60 s timer fires, or runBotEngineCycle makes its call, d ms later *)
MaybeScheduleRefinement ==
  \E d \in {SCHEDULER_CHECK_MS, REFINEMENT_INTERVAL_MS}, book \in TradeBooks :
    /\ ticks < MaxRefinerSteps
    /\ now' = now + d
    /\ ticks' = ticks + 1
    /\ maybeScheduleRefinement(book)
    /\ RefinerFrame

(* the operator asks for a refinement *)
TriggerStrategyRefinement ==
  \E book \in TradeBooks :
    /\ ticks < MaxRefinerSteps
    /\ now' = now + 1
    /\ ticks' = ticks + 1
    /\ triggerStrategyRefinement(book)
    /\ RefinerFrame

CycleEnds(k, r) ==
  /\ strategy' = r.stored
  /\ refiner' = [refiner EXCEPT !.running = RemoveAt(@, k)]
  /\ refinementInFlight' = FALSE
  /\ last' = [ op |-> "end", outcome |-> r.status, at |-> refiner.running[k].now,
               metricsBefore |-> r.metricsBefore, metricsAfter |-> r.metricsAfter ]

(* the analysis of a cycle in flight comes back, or the cycle throws *)
AnalysisReturns ==
  \E k \in 1..Len(refiner.running), analysis \in Analyses, threw \in BOOLEAN :
    /\ ticks < MaxRefinerSteps
    /\ CycleEnds(k, runStrategyRefinementCycle(strategy, refiner.running[k], analysis, threw))
    /\ ticks' = ticks + 1
    /\ now' = now
    /\ RefinerFrame

(* the store the browser starts with: nothing, or a strategy refined when  *)
(* the run begins                                                          *)
RefinerStores ==
  { NoItem,
    [StoredStrategy(<<>>) EXCEPT !.lastRefinementTime = REFINEMENT_INTERVAL_MS,
                                 !.history[1].timestamp = REFINEMENT_INTERVAL_MS] }

InitRefine ==
  /\ strategy \in RefinerStores
  /\ state = createInitialBotState(FALSE, loadStrategyState(strategy).warnings)
  /\ refinementInFlight = FALSE
  /\ refiner = RefinerInit
  /\ pendingTrade = NoTrade
  /\ submitted = NoTrade
  /\ decisions = <<>>
  /\ orders = <<>>
  /\ fills = <<>>
  /\ positions = <<>>
  /\ tradeSequence = 0
  /\ now = REFINEMENT_INTERVAL_MS
  /\ ticks = 0
  /\ markPrice = [s \in Symbols |-> 100]
  /\ last = NoCall
  /\ breaker = CircuitInit
  /\ engine = EngineInit
  /\ refinement = RefinementInit
  /\ stream = StreamInit
  /\ pipeline = PipelineInit
  /\ historyStore = HistoryInit
  /\ venueCalls = <<>>

NextRefine == MaybeScheduleRefinement \/ TriggerStrategyRefinement \/ AnalysisReturns

SpecRefine == InitRefine /\ [][NextRefine]_vars

(* the 60 s timer of the scheduler fires when due; analyzeWithGemini's     *)
(* fetch carries no timeout, and nothing obliges the advisor to answer     *)
SpecRefineLive == SpecRefine /\ WF_vars(MaybeScheduleRefinement)

(* ---------------------------------------------------------------------- *)
(* The strategy store by itself: the exported functions of                 *)
(* strategyState.ts called in any order on the localStorage item.          *)
(* ---------------------------------------------------------------------- *)
MaxStoreCalls == 4

(* a store whose history is full: v41, the forty records v41 .. v2 *)
FullHistory ==
  [ present |-> TRUE, version |-> MAX_HISTORY + 1, parameters |-> InForceParameters,
    lastRefinementTime |-> REFINEMENT_INTERVAL_MS,
    history |-> [i \in 1..MAX_HISTORY |->
                   [ version |-> MAX_HISTORY + 2 - i, timestamp |-> REFINEMENT_INTERVAL_MS,
                     parameters |-> InForceParameters, notes |-> <<>> ]],
    warnings |-> <<>> ]

(* StrategyParameters values a caller may pass: the defaults, and a set    *)
(* with a score threshold of 0.99 and 2.6 concurrent trades                *)
CallerParameters ==
  { DEFAULT_STRATEGY_PARAMETERS,
    [DEFAULT_STRATEGY_PARAMETERS EXCEPT !.minScore = 9900, !.maxConcurrentTrades = 26000] }

Suggestions ==
  { [minScore |-> 9500, atrMultiplier |-> 0, stopLossATR |-> 0],
    [minScore |-> 0, atrMultiplier |-> 6000, stopLossATR |-> 8000] }

StoreFrame ==
  UNCHANGED <<state, pendingTrade, submitted, decisions, orders, fills, positions,
              tradeSequence, markPrice, refinementInFlight, refiner, breaker, engine,
              refinement, stream,
                 pipeline, historyStore,
                 venueCalls>>

StoreCall(op, params) ==
  /\ ticks < MaxStoreCalls
  /\ ticks' = ticks + 1
  /\ now' = now + 1
  /\ last' = [op |-> op, parameters |-> params, at |-> now']
  /\ StoreFrame

LoadStrategyState ==
  /\ StoreCall("loadStrategyState", loadStrategyState(strategy).parameters)
  /\ UNCHANGED strategy

(* saveStrategyState as updateStrategyWarnings calls it *)
SaveStrategyState ==
  \E w \in {<<>>, OldWarnings \o <<"Overtrading in weak regimes.">>} :
    /\ StoreCall("saveStrategyState", loadStrategyState(strategy).parameters)
    /\ strategy' = updateStrategyWarnings(strategy, w)

BuildCandidateParameters ==
  \E suggested \in Suggestions :
    /\ StoreCall("buildCandidateParameters",
                 buildCandidateParameters(loadStrategyState(strategy).parameters, suggested))
    /\ UNCHANGED strategy

(* a commit of the candidate just built, or of parameters of the caller's *)
CommitStrategyParameters ==
  \E params \in CallerParameters \cup
                 {p \in {last.parameters} : last.op = "buildCandidateParameters"} :
    /\ StoreCall("commitStrategyParameters", params)
    /\ strategy' = commitStrategyParameters(strategy, params, <<"Refinement cycle">>, now')

InitStore ==
  /\ strategy \in RefinerStores \cup {FullHistory}
  /\ state = createInitialBotState(FALSE, loadStrategyState(strategy).warnings)
  /\ refinementInFlight = FALSE
  /\ refiner = RefinerInit
  /\ pendingTrade = NoTrade
  /\ submitted = NoTrade
  /\ decisions = <<>>
  /\ orders = <<>>
  /\ fills = <<>>
  /\ positions = <<>>
  /\ tradeSequence = 0
  /\ now = REFINEMENT_INTERVAL_MS
  /\ ticks = 0
  /\ markPrice = [s \in Symbols |-> 100]
  /\ last = [op |-> "none", parameters |-> DEFAULT_STRATEGY_PARAMETERS, at |-> 0]
  /\ breaker = CircuitInit
  /\ engine = EngineInit
  /\ refinement = RefinementInit
  /\ stream = StreamInit
  /\ pipeline = PipelineInit
  /\ historyStore = HistoryInit
  /\ venueCalls = <<>>

NextStore ==
  \/ LoadStrategyState
  \/ SaveStrategyState
  \/ BuildCandidateParameters
  \/ CommitStrategyParameters

SpecStore == InitStore /\ [][NextStore]_vars

(* ---------------------------------------------------------------------- *)
(* The RefinementEngine on its own: decide on the candles of a buffer,     *)
(* registerClosedTrade after a SELL, bumpVersion.  last keeps the latest   *)
(* decide call, its candles and the decision it returned.                  *)
(* ---------------------------------------------------------------------- *)
MaxClosedTrades == 3
MaxBumps == 1

DecideCandle(emaShort, rsi, atr) ==
  [close |-> 10000, emaShort |-> emaShort, emaLong |-> 10000, rsi |-> rsi, atr |-> atr]

(* buffers: an empty one, and one whose last candle has each trend, with   *)
(* and without rsi, calm and volatile                                      *)
DecideCandles ==
  {<<>>} \cup {<<DecideCandle(e, r, a)>> : e \in {0, 10013, 10020, 9980}, r \in {0, 60},
                                          a \in {0, 300}}

DecideFrame ==
  UNCHANGED <<state, pendingTrade, submitted, decisions, orders, fills, positions,
              tradeSequence, now, ticks, markPrice, strategy, refinementInFlight,
              refiner, breaker, engine, stream, pipeline, historyStore,
                 venueCalls>>

closedTotal(re) == SumSeq([i \in 1..(re.version + 1) |-> closedCount(re, i - 1)], LAMBDA n : n)

Decide ==
  \E candles \in DecideCandles :
    /\ last' = [op |-> "decide", candles |-> candles, decision |-> decide(refinement, candles)]
    /\ UNCHANGED refinement
    /\ DecideFrame

RegisterClosedTrade ==
  \E modelVersion \in {NoVersion} \cup 0..refinement.version :
    /\ closedTotal(refinement) < MaxClosedTrades
    /\ refinement' = registerClosedTrade(refinement, modelVersion)
    /\ UNCHANGED last
    /\ DecideFrame

BumpVersion ==
  /\ refinement.version < MaxBumps
  /\ refinement' = bumpVersion(refinement)
  /\ UNCHANGED last
  /\ DecideFrame

InitDecide ==
  /\ strategy = StoredStrategy(<<>>)
  /\ state = createInitialBotState(FALSE, <<>>)
  /\ refinementInFlight = FALSE
  /\ refiner = RefinerInit
  /\ pendingTrade = NoTrade
  /\ submitted = NoTrade
  /\ decisions = <<>>
  /\ orders = <<>>
  /\ fills = <<>>
  /\ positions = <<>>
  /\ tradeSequence = 0
  /\ now = 0
  /\ ticks = 0
  /\ markPrice = [s \in Symbols |-> 100]
  /\ last = NoCall
  /\ breaker = CircuitInit
  /\ engine = EngineInit
  /\ refinement = RefinementInit
  /\ stream = StreamInit
  /\ pipeline = PipelineInit
  /\ historyStore = HistoryInit
  /\ venueCalls = <<>>

NextDecide == Decide \/ RegisterClosedTrade \/ BumpVersion

SpecDecide == InitDecide /\ [][NextDecide]_vars

(* ---------------------------------------------------------------------- *)
(* The MarketStreamService of one symbol and the exchange it listens to.   *)
(* ---------------------------------------------------------------------- *)
MaxBars == 3
MaxDisconnects == 2

StreamFrame ==
  UNCHANGED <<state, pendingTrade, submitted, decisions, orders, fills, positions,
              tradeSequence, now, ticks, markPrice, last, strategy, refinementInFlight,
              refiner, breaker, engine, refinement, pipeline, historyStore,
                 venueCalls>>

(* bootstrap: the REST seed (or none, when getKlines throws), then connect *)
Bootstrap ==
  /\ stream.socket = "NONE"
  /\ ~stream.shut
  /\ \E seeded \in BOOLEAN :
       stream' = [connect(stream) EXCEPT
                    !.buffer = IF seeded
                               THEN getKlines(stream.closedBar, Min(maxBuffer, 500))
                               ELSE <<>>,
                    !.subscribedAt = stream.closedBar]
  /\ StreamFrame

(* a bar closes on the exchange, which sends its closed kline to an open socket *)
BarCloses ==
  /\ stream.closedBar < MaxBars
  /\ stream' = [stream EXCEPT
                  !.closedBar = stream.closedBar + 1,
                  !.wire = IF stream.socket = "OPEN"
                           THEN Append(stream.wire, stream.closedBar + 1)
                           ELSE stream.wire]
  /\ StreamFrame

(* ws.onmessage for a closed kline *)
OnMessage ==
  /\ stream.socket = "OPEN"
  /\ stream.wire # <<>>
  /\ stream' = [stream EXCEPT
                  !.silence = 0,
                  !.buffer = push(stream.buffer, Head(stream.wire)),
                  !.handled = Append(stream.handled, Head(stream.wire)),
                  !.wire = Tail(stream.wire)]
  /\ StreamFrame

(* ws.onmessage for a kline of the open bar (x false): lastMessage only *)
OnTick ==
  /\ stream.socket = "OPEN"
  /\ stream.wire = <<>>
  /\ stream' = [stream EXCEPT !.silence = 0]
  /\ StreamFrame

(* the heartbeat of the current socket fires.  The intervals of earlier    *)
(* sockets fire too: they mark the symbol unstable, which it is since the  *)
(* socket closed, and close a socket that is closed.                       *)
Heartbeat ==
  /\ stream.socket = "OPEN"
  /\ stream.beating
  /\ stream' = IF (stream.silence + 1) * HEARTBEAT_MS > SILENCE_MS
               THEN [stream EXCEPT !.unstable = TRUE, !.socket = "CLOSING"]
               ELSE [stream EXCEPT !.silence = stream.silence + 1]
  /\ StreamFrame

(* ws.onclose, after ws.close(), an error or a close by the peer: what was *)
(* sent and not read is lost                                               *)
OnClose ==
  /\ stream.socket \in {"OPEN", "CLOSING"}
  /\ stream.reconnectAttempt < MaxDisconnects
  /\ stream' = [stream EXCEPT
                  !.socket = "CLOSED",
                  !.unstable = TRUE,
                  !.reconnectAttempt = stream.reconnectAttempt + 1,
                  !.refreshing = stream.refreshing + 1,
                  !.wire = <<>>]
  /\ StreamFrame

(* the REST call of a fallbackRefresh returns, or throws *)
FallbackRefresh ==
  /\ stream.refreshing > 0
  /\ \E fetched \in BOOLEAN :
       stream' = [stream EXCEPT
                    !.buffer = IF fetched
                               THEN pushAll(stream.buffer,
                                            getKlines(stream.closedBar, RestBackfill))
                               ELSE stream.buffer,
                    !.refreshing = stream.refreshing - 1]
  /\ StreamFrame

(* the timer of scheduleReconnect fires: connect *)
Reconnect ==
  /\ stream.socket = "CLOSED"
  /\ stream' = connect(stream)
  /\ StreamFrame

(* shutdown: close the socket, clear the heartbeat kept for the symbol *)
Shutdown ==
  /\ ~stream.shut
  /\ stream.socket # "NONE"
  /\ stream' = shutdown(stream)
  /\ StreamFrame

InitStream == InitDecide

NextStream ==
  \/ Bootstrap
  \/ BarCloses
  \/ OnMessage
  \/ OnTick
  \/ Heartbeat
  \/ OnClose
  \/ FallbackRefresh
  \/ Reconnect
  \/ Shutdown

SpecStream == InitStream /\ [][NextStream]_vars

(* the timers fire when due, the messages sent are read and the REST call  *)
(* of a backfill ends; nothing obliges the socket to close                 *)
SpecStreamLive ==
  /\ SpecStream
  /\ WF_vars(Heartbeat)
  /\ WF_vars(Reconnect)
  /\ WF_vars(OnMessage)
  /\ WF_vars(FallbackRefresh)

(* ---------------------------------------------------------------------- *)
(* One symbol from the stream to the decision: the stream pushes a closed  *)
(* kline and calls evaluateSymbol with it, the scheduler calls             *)
(* evaluateSymbol on the last candle of the buffer.  last keeps the        *)
(* evaluation: the candle update returned, the series handed to decide,    *)
(* the decision.                                                           *)
(* ---------------------------------------------------------------------- *)
MaxPipelineSteps == 4

RawCandle(t, c) ==
  [ timestamp |-> t, close |-> c, high |-> c + 50, low |-> c - 50, volume |-> 10,
    emaShort |-> 0, emaLong |-> 0, rsi |-> 0, atr |-> 0 ]

PipelineCloses == {10000, 10200, 9800}

PipelineFrame ==
  UNCHANGED <<state, pendingTrade, submitted, decisions, orders, fills, positions,
              tradeSequence, now, markPrice, strategy, refinementInFlight,
              refiner, breaker, engine, refinement, stream, historyStore,
                 venueCalls>>

(* lines 91-101 of evaluateSymbol, for a candle that is there *)
Evaluated(trigger, buffer, latestRaw) ==
  /\ pipeline' = [ indicator |-> update(pipeline.indicator, latestRaw).state,
                   buffer |-> buffer ]
  /\ last' = [ op |-> "evaluate", trigger |-> trigger,
               updated |-> update(pipeline.indicator, latestRaw).candle,
               series |-> decisionSeries(buffer, update(pipeline.indicator, latestRaw).candle),
               decision |-> decide(refinement,
                              decisionSeries(buffer,
                                             update(pipeline.indicator, latestRaw).candle)) ]
  /\ ticks' = ticks + 1
  /\ PipelineFrame

(* ws.onmessage: the closed kline of the next bar, or the last one again *)
CandleCloseEvaluated ==
  /\ ticks < MaxPipelineSteps
  /\ \E candle \in {RawCandle(Len(pipeline.buffer) + 1, c) : c \in PipelineCloses}
                     \cup {pipeline.buffer[i] : i \in {Len(pipeline.buffer)} \ {0}} :
       Evaluated("CANDLE_CLOSE", pushCandle(pipeline.buffer, candle), candle)

(* the one-minute scheduler; without a candle the call returns at line 95 *)
ScheduledEvaluated ==
  /\ ticks < MaxPipelineSteps
  /\ Len(pipeline.buffer) > 0
  /\ Evaluated("SCHEDULED_1M", pipeline.buffer, pipeline.buffer[Len(pipeline.buffer)])

InitPipeline == InitDecide

NextPipeline == CandleCloseEvaluated \/ ScheduledEvaluated

SpecPipeline == InitPipeline /\ [][NextPipeline]_vars

(* ---------------------------------------------------------------------- *)
(* The journal store on its own: records are appended and the journal is   *)
(* read, with localStorage taking the write or refusing it (quota), and    *)
(* giving the item or failing.  last keeps the latest read and the record  *)
(* of the latest append.                                                   *)
(* ---------------------------------------------------------------------- *)
MaxHistoryCalls == 4

HistoryRecords == {1, 2}

HistoryFrame ==
  UNCHANGED <<state, pendingTrade, submitted, decisions, orders, fills, positions,
              tradeSequence, now, markPrice, strategy, refinementInFlight,
              refiner, breaker, engine, refinement, stream, pipeline, venueCalls>>

(* recordDecision, recordOrder, recordFill, recordPositionSnapshot *)
RecordAppended ==
  \E record \in HistoryRecords, readable \in BOOLEAN, written \in BOOLEAN :
    /\ ticks < MaxHistoryCalls
    /\ historyStore' = appendRecord(historyStore, record, readable, written)
    /\ last' = [op |-> "record", record |-> record, read |-> last.read]
    /\ ticks' = ticks + 1
    /\ HistoryFrame

(* a read of the journal: getOrders, getRecentTrades, the idempotency check *)
JournalRead ==
  \E readable \in BOOLEAN :
    /\ ticks < MaxHistoryCalls
    /\ historyStore' = [historyStore EXCEPT !.inMemory = loadStorage(historyStore, readable)]
    /\ last' = [op |-> "read", record |-> 0, read |-> loadStorage(historyStore, readable)]
    /\ ticks' = ticks + 1
    /\ HistoryFrame

InitHistory ==
  /\ strategy = StoredStrategy(<<>>)
  /\ state = createInitialBotState(FALSE, <<>>)
  /\ refinementInFlight = FALSE
  /\ refiner = RefinerInit
  /\ pendingTrade = NoTrade
  /\ submitted = NoTrade
  /\ decisions = <<>>
  /\ orders = <<>>
  /\ fills = <<>>
  /\ positions = <<>>
  /\ tradeSequence = 0
  /\ now = 0
  /\ ticks = 0
  /\ markPrice = [s \in Symbols |-> 100]
  /\ last = [op |-> "none", record |-> 0, read |-> <<>>]
  /\ breaker = CircuitInit
  /\ engine = EngineInit
  /\ refinement = RefinementInit
  /\ stream = StreamInit
  /\ pipeline = PipelineInit
  /\ historyStore = HistoryInit
  /\ venueCalls = <<>>

NextHistory == RecordAppended \/ JournalRead

SpecHistory == InitHistory /\ [][NextHistory]_vars

(* ---------------------------------------------------------------------- *)
(* The ArbitrageEngine over two adapters: an opportunity buys on one venue *)
(* and sells on the other.  last keeps the execution: its opportunity, the *)
(* outcomes of the legs and of the hedge call, and what execute returned.  *)
(* ---------------------------------------------------------------------- *)
MaxExecutions == 2
MaxArbQty == 2

Venues == {"binance", "bybit"}

Opportunities ==
  { o \in [buyExchange : Venues, sellExchange : Venues] : o.buyExchange # o.sellExchange }

ArbitrageFrame ==
  UNCHANGED <<state, pendingTrade, submitted, decisions, orders, fills, positions,
              tradeSequence, now, markPrice, strategy, refinementInFlight,
              refiner, breaker, engine, refinement, stream, pipeline, historyStore>>

Execute ==
  \E opportunity \in Opportunities, qty \in 1..MaxArbQty,
     buyLeg \in OrderOutcomes, sellLeg \in OrderOutcomes, hedge \in {"FILLED", "THROWN"} :
    /\ ticks < MaxExecutions
    /\ venueCalls' = venueCalls \o executeArbitrage(opportunity, qty, buyLeg, sellLeg, hedge).calls
    /\ last' = [ op |-> "execute", opportunity |-> opportunity, qty |-> qty,
                 buyLeg |-> buyLeg, sellLeg |-> sellLeg,
                 execution |-> executeArbitrage(opportunity, qty, buyLeg, sellLeg, hedge) ]
    /\ ticks' = ticks + 1
    /\ ArbitrageFrame

InitArbitrage == InitDecide

NextArbitrage == Execute

SpecArbitrage == InitArbitrage /\ [][NextArbitrage]_vars

(* ====================================================================== *)
(* Properties                                                              *)
(* ====================================================================== *)

(* does the journal hold an order that was not skipped under this key      *)
KeyTaken(key) == \E i \in 1..Len(orders) :
                   orders[i].idempotencyKey = key /\ orders[i].status # "SKIPPED"

(* C1: a call of confirmPendingTrade whose idempotency key already has a   *)
(* non-SKIPPED order in the journal appends exactly one order, of status   *)
(* SKIPPED, appends no fill and no position snapshot, and returns the      *)
(* state unchanged (no trade, no lot, no id consumed); this holds for      *)
(* every repetition of the call.                                           *)
C1_DuplicateIsSkipped ==
  [][ (last'.op = "confirm" /\ KeyTaken(last'.key))
        => /\ Len(orders') = Len(orders) + 1
           /\ SubSeq(orders', 1, Len(orders)) = orders
           /\ orders'[Len(orders')].status = "SKIPPED"
           /\ orders'[Len(orders')].idempotencyKey = last'.key
           /\ fills' = fills
           /\ positions' = positions
           /\ state' = state
           /\ tradeSequence' = tradeSequence ]_vars

(* C1 witness: a confirmed BUY was passed to confirmPendingTrade twice     *)
(* more; one trade, one fill, two SKIPPED orders.                          *)
C1_Witness ==
  /\ last.op = "confirm"
  /\ Len(orders) = 3
  /\ orders[1].status = "ACCEPTED"
  /\ orders[2].status = "SKIPPED" /\ orders[3].status = "SKIPPED"
  /\ orders[2].idempotencyKey = orders[1].idempotencyKey
  /\ orders[3].idempotencyKey = orders[1].idempotencyKey
  /\ Len(fills) = 1
  /\ Len(state.trades) = 1
  /\ Len(state.activePositions) = 1

(* amounts of the symbol's recorded trades of one type *)
tradedAmount(trades, symbol, type) ==
  SumSeq(SelectSeq(trades, LAMBDA t : t.symbol = symbol /\ t.type = type),
         LAMBDA t : t.amount)

(* C2: whatever BUY fills, signal or manual SELL fills and stop-loss /     *)
(* take-profit exits the ledger has applied, holdings[symbol] is the sum   *)
(* of the amounts of the symbol's BUY trades minus the sum of the amounts  *)
(* of its SELL trades, and it is never negative.                           *)
C2_HoldingsAreNetFills ==
  \A s \in Symbols :
     /\ HoldingOf(state, s)
          = tradedAmount(state.trades, s, "BUY") - tradedAmount(state.trades, s, "SELL")
     /\ HoldingOf(state, s) >= 0

(* C2 witness: two BUY fills, then a manual SELL of part of the holdings   *)
(* that splits the first lot.                                              *)
C2_Witness ==
  /\ \E i \in 1..Len(state.trades) :
        /\ state.trades[i].type = "SELL"
        /\ state.trades[i].exitReason = "MANUAL"
        /\ state.trades[i].amount = 1
  /\ tradedAmount(state.trades, "BTC-USDC", "BUY") = 3
  /\ HoldingOf(state, "BTC-USDC") = 2
  /\ Len(state.activePositions) = 2

(* how many records of a journal satisfy a test *)
CountIn(journal, Test(_)) == Cardinality({j \in 1..Len(journal) : Test(journal[j])})

(* C3: for every order recorded with status ACCEPTED, the history holds    *)
(* exactly one Decision whose id is the order's decisionId, exactly one    *)
(* ACCEPTED order of that orderId, exactly one FILLED fill for the orderId *)
(* and exactly one position snapshot of the call, and their timestamps     *)
(* run in the order Decision, Order, Fill, PositionSnapshot.               *)
C3_AcceptedOrderChain ==
  \A i \in 1..Len(orders) :
     orders[i].status = "ACCEPTED" =>
       /\ CountIn(decisions, LAMBDA d : d.id = orders[i].decisionId) = 1
       /\ CountIn(orders, LAMBDA o : o.orderId = orders[i].orderId
                                      /\ o.status = "ACCEPTED") = 1
       /\ CountIn(fills, LAMBDA f : f.orderId = orders[i].orderId
                                     /\ f.status = "FILLED") = 1
       /\ CountIn(positions, LAMBDA p : p.symbol = orders[i].symbol
                                         /\ p.ts = orders[i].ts) = 1
       /\ \A j \in 1..Len(decisions) :
             decisions[j].id = orders[i].decisionId => decisions[j].ts <= orders[i].ts
       /\ \A j \in 1..Len(fills) :
             fills[j].orderId = orders[i].orderId => orders[i].ts <= fills[j].ts

LedgerChanged ==
  \/ state'.balance # state.balance
  \/ state'.holdings # state.holdings
  \/ state'.activePositions # state.activePositions

(* C5: every change to balance, holdings or activePositions (a BUY fill,   *)
(* a signal or manual SELL fill, a stop-loss exit, a take-profit exit)     *)
(* comes with an ACCEPTED order record for that fill, written to the       *)
(* history by the same call no later than the trade: each trade the step   *)
(* adds has an ACCEPTED order of its symbol and side among the orders the  *)
(* step appends.                                                           *)
C5_LedgerChangeHasOrder ==
  [][ LedgerChanged =>
        \A k \in 1..(Len(state'.trades) - Len(state.trades)) :
           \E j \in (Len(orders) + 1)..Len(orders') :
              /\ orders'[j].status = "ACCEPTED"
              /\ orders'[j].symbol = state'.trades[k].symbol
              /\ orders'[j].side = state'.trades[k].type
              /\ orders'[j].ts <= state'.trades[k].timestamp ]_vars

(* value of the holdings at the latest ticker price of each symbol *)
MarkValue(S) ==
  LET RECURSIVE Sum(_)
      Sum(T) == IF T = {} THEN 0
                ELSE LET s == CHOOSE x \in T : TRUE
                     IN HoldingOf(state, s) * markPrice[s] * Mills + Sum(T \ {s})
  IN Sum(S)

(* C6: after every runBotEngineCycle call, whichever symbol the tick       *)
(* evaluated, the returned state has totalPortfolioValue = balance + the   *)
(* sum over the held symbols of holdings[sym] times the current mark price *)
(* of sym.                                                                 *)
C6_PortfolioValueAtMark ==
  last.op = "cycle" => state.totalPortfolioValue = state.balance + MarkValue(Symbols)

(* the orders the engine has executed: the trades of every symbol state *)
EngineTrades(e) == [s \in Symbols |-> e.symbolStates[s].trades]

(* C7: once the breaker is halted, every evaluateSymbol call leaves it      *)
(* halted, whatever it hands to evaluate, until reset() is called; and a   *)
(* call that ends with the breaker halted has executed no BUY and no SELL  *)
(* order.                                                                  *)
C7_HaltLatchesAndBlocks ==
  [][ last'.op = "evaluateSymbol" =>
        /\ breaker.halted => breaker'.halted
        /\ breaker'.halted =>
             /\ EngineTrades(engine') = EngineTrades(engine)
             /\ engine'.counters.totalTradesExecuted = engine.counters.totalTradesExecuted
             /\ last'.outcome \notin {"BUY", "SELL"} ]_vars

(* a confident signal on calm inputs, with a position to sell, was         *)
(* evaluated while the breaker was halted, and nothing was executed        *)
C7_Witness ==
  /\ breaker.halted
  /\ last.op = "evaluateSymbol"
  /\ last.outcome = "HALTED"
  /\ last.input.evaluated
  /\ Len(tripReasons(last.input, breakerCfg)) = 0
  /\ Len(engine.symbolStates[last.symbol].positions) > 0
  /\ engine.counters.totalTradesExecuted = 1
  /\ engine.counters.totalEvaluations = 3

(* the level of the lot that price p has reached, the stop-loss first *)
levelHit(lot, p) ==
  IF lot.stopLoss # 0 /\ p <= lot.stopLoss THEN "STOP_LOSS"
  ELSE IF lot.takeProfit # 0 /\ p >= lot.takeProfit THEN "TAKE_PROFIT"
  ELSE "NONE"

(* the open lots of symbol s that have a level hit at p, oldest first *)
HitLots(st, s, p) ==
  SelectSeq(lotsOf(st.activePositions, s), LAMBDA lot : levelHit(lot, p) # "NONE")

(* the open lots a scan of s at p leaves alone *)
SpareLots(st, s, p) ==
  SelectSeq(st.activePositions, LAMBDA lot : lot.symbol # s \/ levelHit(lot, p) = "NONE")

(* the trades recorded between two ledgers, oldest first, and the exits    *)
(* among them                                                              *)
newTrades(before, after) == Reverse(SubSeq(after, 1, Len(after) - Len(before)))

ExitTrades(trades) ==
  SelectSeq(trades, LAMBDA t : t.exitReason \in {"STOP_LOSS", "TAKE_PROFIT"})

LotIds(st) == {st.activePositions[j].id : j \in 1..Len(st.activePositions)}

(* the step closed every lot of s hit at p by one SELL of its own: the     *)
(* exits recorded are, lot by lot, a SELL of the lot's amount and levels   *)
(* with the reason of the level hit; none of these lots is open            *)
(* afterwards; and unless a signal SELL followed in the same cycle, the    *)
(* other lots are as they were                                             *)
ScanClosedHitLots(s, p) ==
  LET hits == HitLots(state, s, p)
      recorded == newTrades(state.trades, state'.trades)
      exits == ExitTrades(recorded)
  IN /\ Len(exits) = Len(hits)
     /\ \A i \in 1..Len(hits) :
          /\ exits[i].type = "SELL"
          /\ exits[i].symbol = s
          /\ exits[i].exitReason = levelHit(hits[i], p)
          /\ exits[i].amount = hits[i].amount
          /\ exits[i].stopLoss = hits[i].stopLoss
          /\ exits[i].takeProfit = hits[i].takeProfit
          /\ hits[i].id \notin LotIds(state')
     /\ (\A i \in 1..Len(recorded) : recorded[i].type = "SELL" => recorded[i] \in
            {exits[k] : k \in 1..Len(exits)})
          => SelectSeq(state'.activePositions, LAMBDA lot : lot.id \in LotIds(state))
               = SpareLots(state, s, p)

(* a lot that a step opens has an id no lot has had: the sequence number   *)
(* in it is above every number used so far                                 *)
LotsAreNew ==
  /\ \A id \in LotIds(state) : id[4] <= tradeSequence
  /\ \A id \in LotIds(state') \ LotIds(state) : id[4] > tradeSequence

LotsAtLevel(st, s, p) ==
  { j \in 1..Len(st.activePositions) :
      /\ st.activePositions[j].symbol = s
      /\ \/ st.activePositions[j].stopLoss # 0 /\ st.activePositions[j].stopLoss >= p
         \/ st.activePositions[j].takeProfit # 0 /\ st.activePositions[j].takeProfit <= p }

RealizedPnl(st) == SumSeq(st.trades, LAMBDA t : IF t.type = "SELL" THEN t.pnl ELSE 0)

(* C10: whenever the ledger holds no open lot, balance minus the initial   *)
(* balance is the sum of pnl over all SELL trades: every entry fee and     *)
(* every exit fee is in that sum once.                                     *)
C10_FlatEquityIsRealizedPnl ==
  state.activePositions = <<>>
    => state.balance - INITIAL_BALANCE * Mills = RealizedPnl(state)

(* the ledger is flat again after a lot was sold in two parts *)
C10_Witness ==
  /\ state.activePositions = <<>>
  /\ Len(state.trades) >= 3
  /\ state.trades[1].type = "SELL"
  /\ state.trades[2].type = "SELL"
  /\ state.trades[1].pnl # 0
  /\ state.trades[2].pnl # 0
  /\ state.balance # INITIAL_BALANCE * Mills

(* ---------------------------------------------------------------------- *)
(* C11.  What a cycle records of its evaluation.                           *)
(* ---------------------------------------------------------------------- *)
Actions == {"BUY", "SELL", "HOLD"}

(* the journal gained exactly one Decision, for the cycle's symbol and the *)
(* configured timeframe                                                    *)
OneDecisionAppended ==
  /\ Len(decisions') = Len(decisions) + 1
  /\ SubSeq(decisions', 1, Len(decisions)) = decisions
  /\ decisions'[Len(decisions')].symbol = last'.symbol
  /\ decisions'[Len(decisions')].timeframe = runtimeConfig.timeframe
  /\ decisions'[Len(decisions')].signal \in Actions

(* the training log gained one entry at its head, written by this cycle *)
OneLogEntryAtHead ==
  /\ state'.trainingDataLog # <<>>
  /\ Tail(state'.trainingDataLog)
       = Take(state.trainingDataLog, MAX_TRAINING_LOG - 1)
  /\ Head(state'.trainingDataLog).timestamp = now'
  /\ Head(state'.trainingDataLog).action \in Actions
  /\ Head(state'.trainingDataLog).marketStatus \in {"ACTIVE", "LOW_VOLATILITY"}

RiskRejections ==
  { "Insufficient paper capital", "Chop filter blocked low-quality setup",
    "Max concurrent trades reached", "Daily max loss reached", "Kill-switch",
    "Invalid ATR", "ATR regime outside allowed volatility window",
    "Calculated stop-loss/take-profit invalid",
    "Position size below minimum practical threshold" }

(* the step is an evaluated cycle whose BUY signal evaluateRisk rejected:  *)
(* the cycle starts from the stored warnings and puts risk.reason at the   *)
(* head of aiWarnings                                                      *)
RiskRejectedBuy ==
  /\ last'.op = "cycle" /\ last'.outcome = "ok"
  /\ state'.aiWarnings # <<>>
  /\ Head(state'.aiWarnings) \in RiskRejections

(* C12 as stated: when the risk manager rejects a BUY signal, the Decision *)
(* recorded for that cycle has signal HOLD and carries the rejection       *)
(* reason among its reasons, and no order record is written for the cycle. *)
C12_RejectedBuyRecordedAsHold ==
  [][ RiskRejectedBuy
        => /\ decisions'[Len(decisions')].signal = "HOLD"
           /\ \E i \in 1..Len(decisions'[Len(decisions')].reasons) :
                 decisions'[Len(decisions')].reasons[i] = Head(state'.aiWarnings)
           /\ orders' = orders ]_vars

C14_SchedulerStartsADayApart ==
  \A i, j \in 1..Len(refiner.starts) :
     i < j /\ refiner.starts[i].by = "scheduler" /\ refiner.starts[j].by = "scheduler"
       => refiner.starts[j].at - refiner.starts[i].at >= REFINEMENT_INTERVAL_MS

(* ---------------------------------------------------------------------- *)
(* C15.  One refinement cycle at a time.                                   *)
(* ---------------------------------------------------------------------- *)
(* C15: at most one runStrategyRefinementCycle is in flight at any time;   *)
(* while one has not finished neither maybeScheduleRefinement nor          *)
(* triggerStrategyRefinement starts another, and the latter returns        *)
(* RUNNING.                                                                *)
C15_OneCycleInFlight ==
  [][ /\ Len(refiner'.running) <= 1
      /\ refiner.running # <<>> => refiner'.starts = refiner.starts
      /\ refiner.running # <<>> /\ last'.op = "trigger" => last'.outcome = "RUNNING" ]_vars

(* a forced trigger has found the cycle the scheduler started still in     *)
(* flight and has returned RUNNING                                         *)
C15_Witness ==
  /\ Len(refiner.running) = 1
  /\ refiner.running[1].by = "scheduler"
  /\ refinementInFlight
  /\ last.op = "trigger" /\ last.outcome = "RUNNING"
  /\ Len(refiner.starts) = 1

(* ---------------------------------------------------------------------- *)
(* C16.  What a cycle that does not commit leaves in the store.            *)
(* ---------------------------------------------------------------------- *)
SameButWarnings(after, before) ==
  /\ after.version = before.version
  /\ after.parameters = before.parameters
  /\ after.history = before.history
  /\ after.lastRefinementTime = before.lastRefinementTime

(* C16: when a refinement cycle ends with status skipped, rejected or      *)
(* failed, the stored strategy has the version, parameters, history and    *)
(* lastRefinementTime it had before the cycle (when the step began, and    *)
(* when the cycle started); only its warnings change.                      *)
C16_UncommittedCycleKeepsStrategy ==
  [][ last'.op \in {"end", "scheduler", "trigger"}
        /\ last'.outcome \in {"skipped", "rejected", "failed"}
        => /\ SameButWarnings(loadStrategyState(strategy'), loadStrategyState(strategy))
           /\ last'.op = "end"
                => SameButWarnings(loadStrategyState(strategy'),
                                   refiner.running[1].strategy) ]_vars

(* a cycle has ended rejected and has left its warnings in the store *)
C16_Witness ==
  /\ last.op = "end" /\ last.outcome = "rejected"
  /\ strategy.present
  /\ strategy.warnings # <<>>
  /\ strategy.warnings[1] = "Refinement rejected. Previous strategy snapshot retained."
  /\ refiner.running = <<>> /\ ~refinementInFlight

(* ---------------------------------------------------------------------- *)
(* C18.  The walk-forward acceptance test.                                 *)
(* ---------------------------------------------------------------------- *)
(* the three conditions on the forward window: the candidate's drawdown    *)
(* not greater than the baseline's, its profit factor not less, its        *)
(* closed-trade count at least max(6, half the baseline's)                 *)
MeetsWalkForward(candidate, baseline) ==
  /\ candidate.maxDrawdownPct <= baseline.maxDrawdownPct
  /\ profitFactorAtLeast(candidate, baseline)
  /\ candidate.closedTrades >= MIN_FORWARD_TRADES
  /\ 2 * candidate.closedTrades >= baseline.closedTrades

(* C18 as stated: a cycle that evaluated a candidate commits it (status    *)
(* applied) only if, and whenever, the candidate meets the three           *)
(* conditions on the 30% forward window.                                   *)
C18_AppliedIffWalkForwardMet ==
  [][ last'.op = "end" /\ last'.outcome \in {"applied", "rejected"}
        => (last'.outcome = "applied"
              <=> MeetsWalkForward(last'.metricsAfter, last'.metricsBefore)) ]_vars

(* ---------------------------------------------------------------------- *)
(* C17.  Versions and history of the committed strategy.                   *)
(* ---------------------------------------------------------------------- *)
(* the committed versions the store still knows: the current one and       *)
(* those of the history records                                            *)
CommittedVersions(item) ==
  IF item.present
  THEN {parseVersionNumber(item.version)}
         \cup {parseVersionNumber(item.history[i].version) : i \in 1..Len(item.history)}
  ELSE {}

WithinBounds(p) ==
  \A f \in DOMAIN ParameterBounds :
     p[f] >= ParameterBounds[f][1] /\ p[f] <= ParameterBounds[f][2]

OrderExecuted ==
  /\ last'.op = "evaluateSymbol"
  /\ last'.outcome \in {"BUY", "SELL"}

C20_OneOrderPerSymbolAndBar ==
  [][OrderExecuted =>
       /\ last'.price > engine.lastDecisionTsBySymbol[last'.symbol]
       /\ engine'.lastDecisionTsBySymbol[last'.symbol] = last'.price
       /\ Len(engine'.symbolStates[last'.symbol].trades)
            = Len(engine.symbolStates[last'.symbol].trades) + 1]_vars

(* the scheduler evaluated, with a confident SELL, the bar the candle-     *)
(* close trigger had bought on: no second order was executed               *)
C20_Witness ==
  /\ last.op = "evaluateSymbol"
  /\ last.trigger = "SCHEDULED_1M"
  /\ last.outcome = "DUPLICATE"
  /\ engine.lastDecisionTsBySymbol[last.symbol] = last.price
  /\ Len(engine.symbolStates[last.symbol].positions) = 1
  /\ engine.buffer[last.symbol].timestamp = last.price

(* ---------------------------------------------------------------------- *)
(* C22: in every reachable state of MultiSymbolEngine                      *)
(* totalTradesExecuted <= totalSignals <= totalEvaluations.                *)
(* ---------------------------------------------------------------------- *)
C22_CountersOrdered ==
  /\ engine.counters.totalTradesExecuted <= engine.counters.totalSignals
  /\ engine.counters.totalSignals <= engine.counters.totalEvaluations

(* three evaluations: a HOLD, a signal below the threshold, an order *)
C22_Witness ==
  /\ engine.counters.totalEvaluations = 3
  /\ engine.counters.totalSignals = 2
  /\ engine.counters.totalTradesExecuted = 1

(* ---------------------------------------------------------------------- *)
(* C30: the circuit breaker is evaluated on every evaluation of            *)
(* MultiSymbolEngine: when a trip condition holds on the readings of an    *)
(* evaluation (drawdown above 5 %, three large losses, volatility above    *)
(* 6 %, stream unstable), whatever its decision, the breaker is latched    *)
(* when the evaluation ends.                                               *)
(* ---------------------------------------------------------------------- *)
C30_TripConditionLatches ==
  [][(last'.op = "evaluateSymbol" /\ last'.tripCondition) => breaker'.halted]_vars

(* ---------------------------------------------------------------------- *)
(* C25: confirmPendingTrade records a FILLED fill only after the ledger    *)
(* was changed by that order: for a BUY a lot was added and the balance    *)
(* reduced, for a SELL at least one lot of the symbol was consumed.        *)
(* ---------------------------------------------------------------------- *)
(* the step is a call of confirmPendingTrade that has written a FILLED fill *)
FilledByConfirm ==
  /\ last'.op = "confirm"
  /\ Len(fills') = Len(fills) + 1
  /\ fills'[Len(fills')].status = "FILLED"

C25_FilledFillFollowsLedgerChange ==
  [][FilledByConfirm =>
       IF orders'[Len(orders')].side = "BUY"
       THEN /\ Len(state'.activePositions) = Len(state.activePositions) + 1
            /\ state'.balance < state.balance
       ELSE totalAmountOf(lotsOf(state'.activePositions, last'.symbol))
              < totalAmountOf(lotsOf(state.activePositions, last'.symbol))]_vars

(* ---------------------------------------------------------------------- *)
(* C26: the FILLED fill written by confirmPendingTrade carries the         *)
(* quantity and the average price of the trade applied to the ledger for   *)
(* that order: fill.qty is the amount and fill.avgPrice the price of the   *)
(* trade created, for a BUY and for a SELL.                                *)
(* ---------------------------------------------------------------------- *)
C26_FillCarriesTheTrade ==
  [][(FilledByConfirm /\ Len(state'.trades) = Len(state.trades) + 1) =>
       /\ fills'[Len(fills')].qty = state'.trades[1].amount
       /\ fills'[Len(fills')].avgPrice = state'.trades[1].price]_vars

(* ---------------------------------------------------------------------- *)
(* C27: consumePositions(symbol, qty) without a target consumes the lots   *)
(* of the symbol in insertion order: a lot is reduced or removed only if   *)
(* every earlier lot of the symbol is removed entirely, the amount         *)
(* consumed is min(qty, amount held in the symbol), and the lots of other  *)
(* symbols are unchanged; with a targetPositionId only that lot is         *)
(* reduced or removed.  Checked on every ledger the program reaches, for   *)
(* every symbol, every quantity up to MaxQty and every target.             *)
(* ---------------------------------------------------------------------- *)
MaxQty == 5

(* R is L with its first k lots removed and the next one whole or reduced *)
ConsumedInOrder(L, R) ==
  \E k \in 0..Len(L) :
     \/ R = SubSeq(L, k + 1, Len(L))
     \/ /\ k < Len(L)
        /\ \E a \in 1..(L[k + 1].amount - 1) :
              R = <<[L[k + 1] EXCEPT !.amount = a]>> \o SubSeq(L, k + 2, Len(L))

(* R is L but for the lot with the id, which is reduced or removed *)
OnlyTargetConsumed(L, R, id) ==
  /\ SelectSeq(R, LAMBDA p : p.id # id) = SelectSeq(L, LAMBDA p : p.id # id)
  /\ \A i \in 1..Len(R) : R[i].id = id =>
        \E j \in 1..Len(L) : L[j].id = id /\ R[i] = [L[j] EXCEPT !.amount = R[i].amount]
                                          /\ R[i].amount <= L[j].amount

OtherSymbolsKept(lots, r, symbol) ==
  SelectSeq(r, LAMBDA p : p.symbol # symbol) = SelectSeq(lots, LAMBDA p : p.symbol # symbol)

C27_ConsumesInInsertionOrder ==
  \A s \in Symbols, q \in 0..MaxQty :
     /\ LET r == consumePositions(state, s, q, NoId)
        IN /\ ConsumedInOrder(lotsOf(state.activePositions, s), lotsOf(r.positions, s))
           /\ r.consumedAmount = Min(q, totalAmountOf(lotsOf(state.activePositions, s)))
           /\ totalAmountOf(lotsOf(r.positions, s))
                = totalAmountOf(lotsOf(state.activePositions, s)) - r.consumedAmount
           /\ OtherSymbolsKept(state.activePositions, r.positions, s)
     /\ \A j \in 1..Len(state.activePositions) :
          LET id == state.activePositions[j].id
              r == consumePositions(state, s, q, id)
          IN /\ OnlyTargetConsumed(state.activePositions, r.positions, id)
             /\ r.consumedAmount = IF state.activePositions[j].symbol = s
                                   THEN Min(q, state.activePositions[j].amount) ELSE 0

(* a SELL of 1 was executed on a symbol holding two lots: the older lot    *)
(* is one less than it was bought, the newer one as it was bought          *)
BoughtAmount(id) ==
  SumSeq(state.trades, LAMBDA tr : IF tr.type = "BUY" /\ tr.id = id THEN tr.amount ELSE 0)

C27_Witness ==
  /\ Len(state.trades) >= 3
  /\ state.trades[1].type = "SELL"
  /\ state.trades[1].amount = 1
  /\ Len(lotsOf(state.activePositions, state.trades[1].symbol)) = 2
  /\ LET L == lotsOf(state.activePositions, state.trades[1].symbol)
     IN /\ BoughtAmount(L[1].id) = L[1].amount + 1
        /\ BoughtAmount(L[2].id) = L[2].amount

(* ---------------------------------------------------------------------- *)
(* C28: runBotEngineCycle opens a BUY lot in auto-paper mode only in a     *)
(* state where every risk gate passes: balance above 15, regime not CHOP,  *)
(* fewer open lots than maxConcurrentTrades, the day's realised pnl above  *)
(* -dailyMaxLossPct of the equity, fewer consecutive losses than           *)
(* killSwitchLosses, and the ATR share of the price within minAtrPct and   *)
(* maxAtrPct; and the number of open lots never exceeds                    *)
(* maxConcurrentTrades.  The state of the gates is the one the cycle has   *)
(* after its stop-loss / take-profit exits.                                *)
(* ---------------------------------------------------------------------- *)
RiskGatesPass(st, price, atr, regime) ==
  /\ st.balance > 15 * Mills
  /\ regime # "CHOP"
  /\ Len(st.activePositions) < parameters.maxConcurrentTrades
  /\ getDailyPnl(st.trades) * 1000 > -(parameters.dailyMaxLossPm * st.totalPortfolioValue)
  /\ getLossStreak(st.trades) < parameters.killSwitchLosses
  /\ parameters.minAtrPm * price <= atr * 1000
  /\ atr * 1000 <= parameters.maxAtrPm * price

(* the step is a cycle in auto-paper mode that has opened a BUY lot *)
BuyOpenedByCycle ==
  /\ last'.op = "cycle"
  /\ state.autoPaperTrading
  /\ Len(state'.trades) > Len(state.trades)
  /\ state'.trades[1].type = "BUY"

(* the cycle of the step was given the candles c, and the gates pass on    *)
(* the state it had after its exits                                        *)
GatesPassedOn(c) ==
  /\ \E lag \in {0, 1} :
        state' = runBotEngineCycle(state, tradeSequence, history, decisions,
                                   loadStrategyState(strategy), last'.symbol, last'.price,
                                   c, "ok", now + 1, lag).state
  /\ RiskGatesPass(processAutoExits(cycleStart(state, deriveSignal(state, c),
                                               loadStrategyState(strategy)),
                                    tradeSequence, last'.symbol, last'.price,
                                    deriveSignal(state, c).atr, now + 1).state,
                   last'.price, deriveSignal(state, c).atr,
                   deriveSignal(state, c).marketRegime)

DecisionRecorded ==
  /\ last'.op = "cycle"
  /\ Len(decisions') = Len(decisions) + 1

(* the cycle of the step was given the candles c *)
CycleOn(c) ==
  \E lag \in {0, 1} :
     /\ state' = runBotEngineCycle(state, tradeSequence, history, decisions,
                                   loadStrategyState(strategy), last'.symbol, last'.price,
                                   c, "ok", now + 1, lag).state
     /\ decisions' = runBotEngineCycle(state, tradeSequence, history, decisions,
                                       loadStrategyState(strategy), last'.symbol,
                                       last'.price, c, "ok", now + 1, lag).decisions

C29_SellFollowsHoldingsOfSymbol ==
  [][DecisionRecorded =>
       /\ decisions'[Len(decisions')].signal = "SELL" => HoldingOf(state, last'.symbol) > 0
       /\ \A c \in CandleInputs :
            (/\ CycleOn(c)
             /\ c.regime \in {"TRENDING_DOWN", "HIGH_VOLATILITY"}
             /\ HoldingOf(state, last'.symbol) > 0)
            => decisions'[Len(decisions')].signal = "SELL"]_vars

(* ---------------------------------------------------------------------- *)
(* C23: getRecentTrades(limit) returns, for every limit >= 0, the          *)
(* min(limit, n) most recently appended orders whose status is not         *)
(* SKIPPED (n the number of such orders), newest first, each with the fill *)
(* recorded for its orderId.  Checked on every journal the ledger writes,  *)
(* for every limit up to MaxLimit.                                         *)
(* ---------------------------------------------------------------------- *)
MaxLimit == 4

NotSkipped == SelectSeq(orders, LAMBDA o : o.status # "SKIPPED")

C23_RecentTradesNewestFirst ==
  \A limit \in 0..MaxLimit :
     LET recent == getRecentTrades(orders, fills, limit)
         n == Len(NotSkipped)
     IN /\ Len(recent) = Min(limit, n)
        /\ \A i \in 1..Len(recent) :
             /\ recent[i].order = NotSkipped[n + 1 - i]
             /\ IF \E j \in 1..Len(fills) : fills[j].orderId = recent[i].order.orderId
                THEN /\ recent[i].fill.status # "NONE"
                     /\ recent[i].fill.orderId = recent[i].order.orderId
                ELSE recent[i].fill = NoFill


(* C24: decide is a pure function of its candles: in every state of the    *)
(* engine, decide on the candles of an earlier decide call returns the     *)
(* action and the confidence that call returned.                           *)
C24_DecideIsPureInCandles ==
  last.op = "decide" =>
    /\ decide(refinement, last.candles).action = last.decision.action
    /\ decide(refinement, last.candles).confidence = last.decision.confidence

(* the number of calls of the closed-kline handler for a bar *)
handlerCalls(b) == Cardinality({i \in 1..Len(stream.handled) : stream.handled[i] = b})

(* the socket is open, every kline sent has been read, no backfill is awaited *)
StreamSettled == stream.socket = "OPEN" /\ stream.wire = <<>> /\ stream.refreshing = 0

(* C21: the closed-kline handler is invoked exactly once for each bar that *)
(* closed since the symbol was subscribed: never twice, and, once the      *)
(* stream has settled after disconnects, reconnects and REST backfills,    *)
(* never zero times.                                                       *)
C21_HandlerOncePerClosedBar ==
  \A b \in (stream.subscribedAt + 1)..stream.closedBar :
    /\ handlerCalls(b) <= 1
    /\ StreamSettled => handlerCalls(b) = 1

StrictlyIncreasing(s) == \A i \in 1..(Len(s) - 1) : s[i] < s[i + 1]

(* C34: in every reachable state of the MarketStreamService the buffer of  *)
(* a symbol has strictly increasing candle timestamps, also after the REST *)
(* backfill of a reconnect.                                                *)
C34_BufferStrictlyIncreasing == StrictlyIncreasing(stream.buffer)

(* C35: when the socket stays open from some moment on (it has reconnected *)
(* and its messages keep the heartbeat quiet), isUnstable returns false    *)
(* again at some later moment.                                             *)
C35_UnstableClears == (<>[](stream.socket = "OPEN")) => []<>(~isUnstable(stream))

(* C36: a bootstrap whose REST call fails (the buffer is left empty)       *)
(* leaves the symbol marked unstable.                                      *)
C36_FailedBootstrapMarksUnstable ==
  [][(stream.socket = "NONE" /\ stream'.socket = "OPEN" /\ stream'.buffer = <<>>)
       => isUnstable(stream')]_vars

(* a timer of scheduleReconnect is pending *)
reconnectScheduled(st) == st.socket = "CLOSED"

(* C37: after shutdown the stream stays cancelled: no reconnect timer and  *)
(* no heartbeat timer remains scheduled, no new socket is opened and the    *)
(* closed-kline handler is not invoked again.                              *)
C37_ShutdownStaysCancelled ==
  [][/\ stream'.shut => /\ ~reconnectScheduled(stream')
                        /\ ~stream'.beating
                        /\ stream'.staleTimers = 0
     /\ stream.shut => /\ ~(stream.socket # "OPEN" /\ stream'.socket = "OPEN")
                       /\ stream'.handled = stream.handled]_vars

(* the breaker is latched for reasons read from one symbol's inputs only *)
TrippedBySymbolInputs ==
  /\ breaker.halted
  /\ \A i \in 1..Len(breaker.reasons) : breaker.reasons[i] # "Daily drawdown exceeded"

(* C31: an evaluation of a symbol that has had no candle and no trade yet, *)
(* on readings that hold no trip condition, is not halted by a breaker     *)
(* that the inputs of another symbol have tripped.                         *)
C31_TripDoesNotBlockOtherSymbols ==
  [][\A s \in Symbols :
       ( /\ engine.buffer[s] = NoCandle
         /\ engine.symbolStates[s].trades = <<>>
         /\ TrippedBySymbolInputs
         /\ ticks' = ticks + 1
         /\ last'.op = "evaluateSymbol"
         /\ last'.symbol = s
         /\ ~last'.tripCondition )
       => last'.outcome # "HALTED"]_vars

(* C32: in every evaluation the last candle of the series handed to decide *)
(* carries the emaShort, emaLong, rsi and atr that update computed for the *)
(* bar in that evaluation.                                                 *)
C32_DecideSeesIndicators ==
  last.op = "evaluate" =>
    /\ last.series[Len(last.series)].emaShort = last.updated.emaShort
    /\ last.series[Len(last.series)].emaLong = last.updated.emaLong
    /\ last.series[Len(last.series)].rsi = last.updated.rsi
    /\ last.series[Len(last.series)].atr = last.updated.atr

(* C33: an evaluation of a bar whose timestamp is not greater than that of *)
(* the bar applied by the evaluation before it leaves the running          *)
(* indicator state unchanged.                                              *)
C33_IndicatorsAdvanceOncePerBar ==
  [][( /\ last.op = "evaluate"
       /\ last'.op = "evaluate"
       /\ ticks' = ticks + 1
       /\ last'.updated.timestamp <= last.updated.timestamp )
     => pipeline'.indicator = pipeline.indicator]_vars

(* C38: every refinement cycle that is started finishes and clears the     *)
(* in-flight flag, also when the advisor never answers.                    *)
C38_StartedCycleFinishes == refinementInFlight ~> ~refinementInFlight

IsPrefix(s, t) == Len(s) <= Len(t) /\ SubSeq(t, 1, Len(s)) = s

(* C39: the journal is append-only: a record call extends what a read      *)
(* returns by exactly that record, and every read has the read before it   *)
(* as a prefix, also when a storage write or read fails.                   *)
C39_JournalAppendOnly ==
  [][/\ (last'.op = "record" /\ ticks' = ticks + 1)
          => loadStorage(historyStore', TRUE)
               = Append(loadStorage(historyStore, TRUE), last'.record)
     /\ (last'.op = "read" /\ ticks' = ticks + 1) => IsPrefix(last.read, last'.read)]_vars

(* the calls of the last execution after its two legs *)
HedgeOrders == SubSeq(last.execution.calls, 3, Len(last.execution.calls))

(* the offsetting market order on the venue of the leg that filled *)
OffsetOf(x) ==
  IF x.buyLeg = "FILLED"
  THEN placeOrder(x.opportunity.buyExchange, "SELL", x.qty, FALSE)
  ELSE placeOrder(x.opportunity.sellExchange, "BUY", x.qty, FALSE)

(* C40: after execute returns, when exactly one leg filled an offsetting   *)
(* market order of the same quantity has been placed on that leg's venue   *)
(* and hedgeExecuted is true; when both legs filled or neither did, no     *)
(* hedge order has been placed and hedgeExecuted is false.                 *)
C40_HedgeExactlyWhenOneLegFilled ==
  (last.op = "execute" /\ last.execution.returned) =>
    IF (last.buyLeg = "FILLED") # (last.sellLeg = "FILLED")
    THEN last.execution.hedgeExecuted /\ HedgeOrders = <<OffsetOf(last)>>
    ELSE ~last.execution.hedgeExecuted /\ HedgeOrders = <<>>
====
